---- MODULE Spec2Model ----
(***************************************************************************)
(* A model of the planning / reconciliation core of media-organizer-go:    *)
(* the content equality engine (filesAreIdentical), the duplicate resolver *)
(* (DedupeSources, pickOldest), the destination planner (Destination,      *)
(* resolveCollision, Plan, PlanDestinations, unknownDestination), the      *)
(* destination reconciler (ResolveAgainstDestination), the copy executor   *)
(* (copy.Execute) and the organize command that runs them in sequence.     *)
(*                                                                         *)
(* Strings are sequences of one-character strings, so that filepath.Ext,   *)
(* strings.TrimSuffix, fmt.Sprintf and Go's byte-wise string comparison    *)
(* are computed, not assumed.  File contents are sequences of bytes.       *)
(***************************************************************************)
EXTENDS Integers, Sequences, FiniteSets, TLC

VARIABLES
    fs,           \* the filesystem: path of each existing file -> its bytes
    dirs,         \* the filesystem: the directories that exist
    faults,       \* the I/O operations that fail, as injected faults
    cmpArgs,      \* the pair of paths last handed to filesAreIdentical
    cmpResult,    \* what filesAreIdentical returned for cmpArgs
    callArgs,     \* the function and the arguments of the last direct call
                  \* of headerHash or copyFile
    callResult,   \* what that call returned
    sources,      \* DedupeSources: the source paths, in scan order
    details,      \* DedupeSources: path -> Best.CreatedAt
    sizes,        \* DedupeSources: path -> size as recorded by the scan
    pc,           \* position of the call in progress
    bySize,       \* DedupeSources: size -> paths of that size
    sizesLeft,    \* keys of bySize the range loop has not visited yet
    headerGroups, \* DedupeSources: header hash -> paths, for the current size
    groupsLeft,   \* keys of headerGroups the range loop has not visited yet
    keptSet,      \* DedupeSources: keptSet
    skipSet,      \* DedupeSources: skipSet
    duplicateOf,  \* DedupeSources: duplicateOf
    kept,         \* DedupeSources: returned kept list
    decisions,    \* DedupeSources: returned decisions
    err,          \* the error returned by the call in progress
    firstRun,     \* the results of the earlier DedupeSources calls on these inputs
    bestCreatedAt,  \* path -> best timestamp, for the sources that have one
    existingFiles,  \* the planner's reservation map (the paths mapped to true)
    ops,            \* the planned Operations
    reserved,       \* ResolveAgainstDestination: reserved
    destDecisions,  \* ResolveAgainstDestination: decisions
    probed,         \* per decision, the candidates that were stat'ed and
                    \* the candidates that were compared with the source
    resolvedBefore, \* what the earlier ResolveAgainstDestination calls of
                    \* the caller returned
    loopN,          \* the loop variable (n or i) of the candidate loop that
                    \* is in progress
    finalDecisions, \* organize: the final decision list
    execute,        \* organize: the --execute flag
    overwrite,      \* copy.Options.Overwrite of the Execute call
    results,        \* the Results returned by copy.Execute
    detArgs,        \* the path, options, extractor answer and mtime handed to
                    \* DetermineDetailed
    detResult,      \* what DetermineDetailed returned for detArgs
    scanArgs,       \* the root and the Options handed to Scan / ScanRecords
    scanResult,     \* what Scan / ScanRecords returned for scanArgs
    openFiles       \* the file handles that are open

eqVars == <<cmpArgs, cmpResult, callArgs, callResult>>
inputVars == <<fs, dirs, faults, sources, details, sizes>>
dedupeVars == <<bySize, sizesLeft, headerGroups, groupsLeft, keptSet,
                skipSet, duplicateOf, kept, decisions, firstRun>>
planVars == <<bestCreatedAt, existingFiles, ops>>
resolveVars == <<reserved, destDecisions, probed, resolvedBefore, loopN>>
copyVars == <<execute, overwrite, results>>
attrVars == <<detArgs, detResult>>
scanVars == <<scanArgs, scanResult>>
vars == <<eqVars, inputVars, pc, err, dedupeVars, planVars, resolveVars,
          finalDecisions, copyVars, attrVars, scanVars, openFiles>>

----------------------------------------------------------------------------
(* Bounds.  The header window and the chunk size are scaled down: the      *)
(* source uses 64 KiB and 32 KiB, the model keeps "chunk < header < file". *)

headerBytes == 2
chunkBytes == 1
MaxFileLen == 4
MaxRuns == 2
MaxSources == 3
MaxDestFiles == 2

Bytes == {0, 1}

Min(a, b) == IF a < b THEN a ELSE b

----------------------------------------------------------------------------
(* Strings.                                                                *)

\* The byte value of a character (ASCII), for Go's string comparison.
Ord(c) ==
    CASE c = "." -> 46
      [] c = "/" -> 47
      [] c = "0" -> 48
      [] c = "1" -> 49
      [] c = "2" -> 50
      [] c = "3" -> 51
      [] c = "4" -> 52
      [] c = "5" -> 53
      [] c = "6" -> 54
      [] c = "7" -> 55
      [] c = "8" -> 56
      [] c = "9" -> 57
      [] c = "J" -> 74
      [] c = "M" -> 77
      [] c = "_" -> 95
      [] c = "a" -> 97
      [] c = "b" -> 98
      [] c = "c" -> 99
      [] c = "d" -> 100
      [] c = "e" -> 101
      [] c = "j" -> 106
      [] c = "k" -> 107
      [] c = "m" -> 109
      [] c = "n" -> 110
      [] c = "o" -> 111
      [] c = "s" -> 115
      [] c = "t" -> 116
      [] c = "u" -> 117
      [] c = "w" -> 119
      [] OTHER -> 122

\* Go's s < t on strings: byte-wise lexicographic order.
StrLess(s, t) ==
    \E i \in 1..(Min(Len(s), Len(t)) + 1) :
        /\ \A k \in 1..(i - 1) : s[k] = t[k]
        /\ \/ i > Len(s) /\ i <= Len(t)
           \/ i <= Len(s) /\ i <= Len(t) /\ Ord(s[i]) < Ord(t[i])

\* The elements of S as a sequence in increasing byte-wise order: the order
\* in which the scan returns its records and a directory is read.
RECURSIVE SortedSeq(_)
SortedSeq(S) ==
    IF S = {} THEN <<>>
    ELSE LET least == CHOOSE x \in S : \A y \in S \ {x} : StrLess(x, y)
         IN  <<least>> \o SortedSeq(S \ {least})

\* Positions of character c in s.
Positions(s, c) == {i \in 1..Len(s) : s[i] = c}

Max(S) == CHOOSE m \in S : \A x \in S : x <= m

\* filepath.Base for a clean path: the last element.
Base(p) ==
    IF p = <<>> THEN <<".">>
    ELSE IF Positions(p, "/") = {} THEN p
    ELSE SubSeq(p, Max(Positions(p, "/")) + 1, Len(p))

\* filepath.Dir for a clean path: everything before the last separator.
Dir(p) ==
    IF Positions(p, "/") = {} THEN <<".">>
    ELSE IF Max(Positions(p, "/")) = 1 THEN <<"/">>
    ELSE SubSeq(p, 1, Max(Positions(p, "/")) - 1)

\* filepath.Join of two clean elements (empty elements are ignored).
Join(d, f) ==
    IF d = <<>> THEN f
    ELSE IF f = <<>> THEN d
    ELSE d \o <<"/">> \o f

\* filepath.Ext: the suffix beginning at the final dot of the last element.
Ext(name) ==
    LET b == IF Positions(name, "/") = {} THEN name
             ELSE SubSeq(name, Max(Positions(name, "/")) + 1, Len(name))
    IN  IF Positions(b, ".") = {} THEN <<>>
        ELSE SubSeq(b, Max(Positions(b, ".")), Len(b))

\* strings.TrimSuffix.
TrimSuffix(s, suf) ==
    IF Len(suf) <= Len(s) /\ SubSeq(s, Len(s) - Len(suf) + 1, Len(s)) = suf
    THEN SubSeq(s, 1, Len(s) - Len(suf))
    ELSE s

DigitChar(d) ==
    CASE d = 0 -> "0" [] d = 1 -> "1" [] d = 2 -> "2" [] d = 3 -> "3"
      [] d = 4 -> "4" [] d = 5 -> "5" [] d = 6 -> "6" [] d = 7 -> "7"
      [] d = 8 -> "8" [] OTHER -> "9"

\* fmt.Sprintf("%d", n) for n >= 0.
RECURSIVE Itoa(_)
Itoa(n) == IF n < 10 THEN <<DigitChar(n)>>
           ELSE Itoa(n \div 10) \o <<DigitChar(n % 10)>>

\* fmt.Sprintf("%0wd", n): zero-padded to width w.
RECURSIVE PadZero(_, _)
PadZero(s, w) == IF Len(s) >= w THEN s ELSE PadZero(<<"0">> \o s, w)

\* The suffix put after the extension, not before it.
SuffixedAfterExt(name, i, ext) == name \o ext \o <<"_">> \o Itoa(i)

\* fmt.Sprintf("%s_%d%s", name, i, ext)
Suffixed(name, i, ext) == name \o <<"_">> \o Itoa(i) \o ext

----------------------------------------------------------------------------
(* Files.                                                                  *)

RECURSIVE SeqsUpTo(_, _)
SeqsUpTo(S, n) ==
    IF n = 0 THEN {<<>>}
    ELSE LET shorter == SeqsUpTo(S, n - 1)
         IN  shorter \cup {Append(s, x) : s \in {t \in shorter : Len(t) = n - 1}, x \in S}

Exists(p) == p \in DOMAIN fs

\* The injected I/O failures: a fault [path, op, at] makes the operation op
\* ("stat", "open", "read", "mkdir", "create", "write") on the path fail with
\* an I/O error; a read or write fault strikes at the byte offset at.
Fault(p, op, at) == [path |-> p, op |-> op, at |-> at]

Fails(p, op) == \E f \in faults : f.path = p /\ f.op = op

\* The offsets among the n bytes from off on at which op on p is faulty.
Struck(p, op, off, n) ==
    {f.at : f \in {g \in faults : /\ g.path = p
                                  /\ g.op = op
                                  /\ g.at >= off
                                  /\ g.at < off + n}}

Least(S) == CHOOSE x \in S : \A y \in S : x <= y

\* os.Stat(path).Size(), or the error of a missing or unreadable file.
Stat(p) == IF ~Exists(p) THEN [err |-> "not exist", size |-> 0]
           ELSE IF Fails(p, "stat") THEN [err |-> "EIO", size |-> 0]
           ELSE [err |-> "nil", size |-> Len(fs[p])]

\* io.ReadFull(f, buf) with len(buf) = want, on the open file f whose read
\* offset is off: the bytes read and nil, io.EOF (nothing read),
\* io.ErrUnexpectedEOF, or the bytes before a faulty offset and the I/O error.
ReadFull(f, off, want) ==
    LET n == Min(want, Len(fs[f]) - off)
        struck == Struck(f, "read", off, n)
        got == IF struck = {} THEN n ELSE Least(struck) - off
    IN  [n    |-> got,
         data |-> SubSeq(fs[f], off + 1, off + got),
         err  |-> IF struck # {} THEN "EIO"
                  ELSE IF n = want THEN "nil"
                  ELSE IF n = 0 THEN "EOF" ELSE "ErrUnexpectedEOF"]

\* (*os.File).Read(buf) with len(buf) = want on the open regular file f at
\* offset off: up to want bytes and nil, 0 and io.EOF at end of file, the
\* bytes before a faulty offset and nil, or 0 and the I/O error at one.
Read(f, off, want) ==
    LET n == Min(want, Len(fs[f]) - off)
        struck == Struck(f, "read", off, n)
        got == IF struck = {} THEN n ELSE Least(struck) - off
    IN  [n    |-> got,
         data |-> SubSeq(fs[f], off + 1, off + got),
         err  |-> IF struck # {} /\ got = 0 THEN "EIO"
                  ELSE IF n = 0 THEN "EOF" ELSE "nil"]

\* A buffer comparison that tolerates one differing byte.
BuffersDifferTwice(b1, b2, n) ==
    \E i, j \in 1..n : i # j /\ b1[i] # b2[i] /\ b1[j] # b2[j]

\* The first index at which two equally long buffers differ, if any
\* (the loop "for i := 0; i < n1; i++ { if buf1[i] != buf2[i] ...").
BuffersDiffer(b1, b2, n) == \E i \in 1..n : b1[i] # b2[i]

\* The "full compare remainder" loop of filesAreIdentical on the open files
\* f1 and f2.
RECURSIVE CompareRemainder(_, _, _, _)
CompareRemainder(f1, f2, off1, off2) ==
    LET r1 == Read(f1, off1, chunkBytes)
        r2 == Read(f2, off2, chunkBytes)
    IN  IF r1.n # r2.n THEN [identical |-> FALSE, err |-> "nil"]
        ELSE IF BuffersDiffer(r1.data, r2.data, r1.n)
             THEN [identical |-> FALSE, err |-> "nil"]
        ELSE IF r1.err = "EOF" /\ r2.err = "EOF"
             THEN [identical |-> TRUE, err |-> "nil"]
        ELSE IF r1.err # "nil" THEN [identical |-> FALSE, err |-> "read"]
        ELSE IF r2.err # "nil" THEN [identical |-> FALSE, err |-> "read"]
        ELSE CompareRemainder(f1, f2, off1 + r1.n, off2 + r2.n)

\* A header phase that trusts the header window and skips the remainder.
CompareHeaderOnly(f1, f2, size) ==
    LET limit == IF size < headerBytes THEN size ELSE headerBytes
        r1 == ReadFull(f1, 0, limit)
        r2 == ReadFull(f2, 0, limit)
    IN  IF r1.n # r2.n THEN [identical |-> FALSE, err |-> "nil"]
        ELSE IF BuffersDiffer(r1.data, r2.data, r1.n)
             THEN [identical |-> FALSE, err |-> "nil"]
        ELSE [identical |-> TRUE, err |-> "nil"]

\* The header phase of filesAreIdentical, from the two opens on, after both
\* stats succeeded and the sizes were found equal.
CompareHeader(f1, f2, size) ==
    LET limit == IF size < headerBytes THEN size ELSE headerBytes
        r1 == ReadFull(f1, 0, limit)
        r2 == ReadFull(f2, 0, limit)
    IN  IF Fails(f1, "open") THEN [identical |-> FALSE, err |-> "open"]
        ELSE IF Fails(f2, "open") THEN [identical |-> FALSE, err |-> "open"]
        ELSE IF r1.err \notin {"nil", "EOF", "ErrUnexpectedEOF"}
        THEN [identical |-> FALSE, err |-> "read"]
        ELSE IF r2.err \notin {"nil", "EOF", "ErrUnexpectedEOF"}
        THEN [identical |-> FALSE, err |-> "read"]
        ELSE IF r1.n # r2.n THEN [identical |-> FALSE, err |-> "nil"]
        ELSE IF BuffersDiffer(r1.data, r2.data, r1.n)
             THEN [identical |-> FALSE, err |-> "nil"]
        ELSE IF limit >= size THEN [identical |-> TRUE, err |-> "nil"]
        ELSE CompareRemainder(f1, f2, r1.n, r2.n)

\* A comparison that opens both files before it looks at the sizes.
filesAreIdenticalOpeningFirst(path1, path2) ==
    LET info1 == Stat(path1)
        info2 == Stat(path2)
    IN  IF info1.err # "nil" THEN [identical |-> FALSE, err |-> "stat"]
        ELSE IF info2.err # "nil" THEN [identical |-> FALSE, err |-> "stat"]
        ELSE IF Fails(path1, "open") \/ Fails(path2, "open")
        THEN [identical |-> FALSE, err |-> "open"]
        ELSE IF info1.size # info2.size THEN [identical |-> FALSE, err |-> "nil"]
        ELSE CompareHeader(path1, path2, info1.size)

filesAreIdentical(path1, path2) ==
    LET info1 == Stat(path1)
        info2 == Stat(path2)
    IN  IF info1.err # "nil" THEN [identical |-> FALSE, err |-> "stat"]
        ELSE IF info2.err # "nil" THEN [identical |-> FALSE, err |-> "stat"]
        ELSE IF info1.size # info2.size THEN [identical |-> FALSE, err |-> "nil"]
        ELSE CompareHeader(path1, path2, info1.size)

----------------------------------------------------------------------------
(* File handles.  A call is followed as the sequence of the handles it     *)
(* opens and closes on the path it takes; a deferred Close runs when the   *)
(* function returns, the last deferred first.                              *)

OpenOf(p) == <<"open", p>>
CloseOf(p) == <<"close", p>>

\* os.Open and os.OpenFile give the lowest descriptor that is not in use.
OpenHandle(open, p) ==
    LET used == {h.fd : h \in open}
        fd == CHOOSE n \in 0..Cardinality(used) : n \notin used
    IN  open \cup {[fd |-> fd, path |-> p]}

\* f.Close() on a handle of the path p: the one opened last.
CloseHandle(open, p) ==
    LET mine == {h \in open : h.path = p}
    IN  IF mine = {} THEN open
        ELSE open \ {CHOOSE h \in mine : \A g \in mine : g.fd <= h.fd}

\* The open handles after the events es.
RECURSIVE After(_, _)
After(open, es) ==
    IF es = <<>> THEN open
    ELSE After(IF Head(es)[1] = "open" THEN OpenHandle(open, Head(es)[2])
               ELSE CloseHandle(open, Head(es)[2]),
               Tail(es))

\* headerHash: no handle if os.Open fails; else "defer f.Close()" covers
\* the read error and the success.
headerHashHandles(path) ==
    IF ~Exists(path) \/ Fails(path, "open") THEN <<>>
    ELSE <<OpenOf(path), CloseOf(path)>>

\* A comparison that closes its files only at the end of the function body
\* and not on the returns before it.
filesAreIdenticalHandlesLeaking(path1, path2) ==
    LET info1 == Stat(path1)
        info2 == Stat(path2)
    IN  IF info1.err # "nil" \/ info2.err # "nil" THEN <<>>
        ELSE IF info1.size # info2.size THEN <<>>
        ELSE IF Fails(path1, "open") THEN <<>>
        ELSE IF Fails(path2, "open") THEN <<OpenOf(path1)>>
        ELSE <<OpenOf(path1), OpenOf(path2), CloseOf(path2), CloseOf(path1)>>

\* filesAreIdentical: it returns before any open on a stat error or on
\* different sizes; "defer f1.Close()" is registered once f1 is open and
\* runs also when opening f2 fails; after "defer f2.Close()" every return
\* (read error, difference, equality) closes f2 and then f1.
filesAreIdenticalHandles(path1, path2) ==
    LET info1 == Stat(path1)
        info2 == Stat(path2)
    IN  IF info1.err # "nil" \/ info2.err # "nil" THEN <<>>
        ELSE IF info1.size # info2.size THEN <<>>
        ELSE IF Fails(path1, "open") THEN <<>>
        ELSE IF Fails(path2, "open") THEN <<OpenOf(path1), CloseOf(path1)>>
        ELSE <<OpenOf(path1), OpenOf(path2), CloseOf(path2), CloseOf(path1)>>

\* DetermineDetailed: it opens the file for the extractor after the stat
\* and the directory test, and closes it when the extractor has returned,
\* whatever it returned.
DetermineDetailedHandles(path) ==
    IF path \notin DOMAIN fs \cup dirs THEN <<>>
    ELSE IF Fails(path, "stat") THEN <<>>
    ELSE IF path \in dirs THEN <<>>
    ELSE IF Fails(path, "open") THEN <<>>
    ELSE <<OpenOf(path), CloseOf(path)>>

\* copyFile on the filesystem f: "defer srcFile.Close()" covers the stat
\* error and the failure to create the destination; once the destination
\* is open, "defer dstFile.Close()" covers the copy error, the sync error
\* and the success.
copyFileHandles(f, src, dst, allowOverwrite) ==
    IF src \notin DOMAIN f \/ Fails(src, "open") THEN <<>>
    ELSE IF Fails(src, "stat") THEN <<OpenOf(src), CloseOf(src)>>
    ELSE IF dst \in DOMAIN f /\ ~allowOverwrite
    THEN <<OpenOf(src), CloseOf(src)>>
    ELSE IF Fails(dst, "create") THEN <<OpenOf(src), CloseOf(src)>>
    ELSE <<OpenOf(src), OpenOf(dst), CloseOf(dst), CloseOf(src)>>

----------------------------------------------------------------------------
(* Timestamps.  A time.Time is <<year, month, day, second of the day>>;    *)
(* the zero time is January 1 of year 1, 00:00:00.                         *)

ZeroTime == <<1, 1, 1, 0>>
T2019 == <<2019, 1, 1, 0>>
T2020 == <<2020, 1, 1, 0>>
T2020Late == <<2020, 1, 1, 5>>

IsZero(t) == t = ZeroTime

\* t.Before(u)
Before(t, u) ==
    \E i \in 1..4 : (\A k \in 1..(i - 1) : t[k] = u[k]) /\ t[i] < u[i]

\* t.Equal(u)
TimeEqual(t, u) == t = u

----------------------------------------------------------------------------
(* Created-at attribution.  A time that carries a location is              *)
(* <<year, month, day, second of the day, zone offset in seconds>>: the    *)
(* wall clock in its zone.                                                 *)

SourceMetadata == "metadata"
SourceFilename == "filename"
SourceMtime == "mtime"
SourceUnknown == "unknown"

UTC == 0

\* time.Time{}
ZeroValue == <<1, 1, 1, 0, UTC>>

IsLeap(y) == (y % 4 = 0 /\ y % 100 # 0) \/ y % 400 = 0

DaysIn(y, mo) ==
    IF mo = 2 THEN (IF IsLeap(y) THEN 29 ELSE 28)
    ELSE IF mo \in {4, 6, 9, 11} THEN 30 ELSE 31

\* The year and month of month number mo of year y, mo outside 1..12 too.
NormMonth(y, mo) == <<y + ((mo - 1) \div 12), ((mo - 1) % 12) + 1>>

\* The date of day number d of a month, d below 1 or past its end too.
RECURSIVE RollDays(_, _, _)
RollDays(y, mo, d) ==
    IF d < 1
    THEN LET pm == NormMonth(y, mo - 1)
         IN  RollDays(pm[1], pm[2], d + DaysIn(pm[1], pm[2]))
    ELSE IF d > DaysIn(y, mo)
    THEN LET nm == NormMonth(y, mo + 1)
         IN  RollDays(nm[1], nm[2], d - DaysIn(y, mo))
    ELSE <<y, mo, d>>

\* time.Date(y, mo, d, h, mi, s, 0, loc): values outside their usual ranges
\* are normalised.
Date(y, mo, d, h, mi, s, loc) ==
    LET secs == h * 3600 + mi * 60 + s
        ym == NormMonth(y, mo)
        ymd == RollDays(ym[1], ym[2], d + (secs \div 86400))
    IN  <<ymd[1], ymd[2], ymd[3], secs % 86400, loc>>

\* t.IsZero() for a time that carries a location: the instant is January 1,
\* year 1, 00:00:00 UTC.
IsZeroInstant(t) ==
    Date(t[1], t[2], t[3], 0, 0, t[4] - t[5], UTC) = ZeroValue

IsDigit(c) == c \in {DigitChar(d) : d \in 0..9}

DigitVal(c) == CHOOSE d \in 0..9 : DigitChar(d) = c

\* atoi on a string of digits.
RECURSIVE atoi(_)
atoi(s) ==
    IF s = <<>> THEN 0
    ELSE 10 * atoi(SubSeq(s, 1, Len(s) - 1)) + DigitVal(s[Len(s)])

UpperCase == <<"A", "C", "D", "E", "G", "H", "I", "J", "L", "M", "N", "O",
               "P", "R", "S", "T", "V", "W", "X">>
LowerCase == <<"a", "c", "d", "e", "g", "h", "i", "j", "l", "m", "n", "o",
               "p", "r", "s", "t", "v", "w", "x">>

\* The lower-case form of a letter of the patterns; any other character is
\* left as it is.
Lower(c) ==
    IF \E i \in 1..Len(UpperCase) : UpperCase[i] = c
    THEN LowerCase[CHOOSE i \in 1..Len(UpperCase) : UpperCase[i] = c]
    ELSE c

\* The pattern elements: a literal character at position i, n digits from
\* position i (\d{n}), a literal matched without regard to case.
At(f, i, c) == i <= Len(f) /\ f[i] \in c

Digits(f, i, n) ==
    i + n - 1 <= Len(f) /\ \A k \in i..(i + n - 1) : IsDigit(f[k])

Fold(f, i, lit) ==
    /\ i + Len(lit) - 1 <= Len(f)
    /\ \A k \in 1..Len(lit) : Lower(f[i + k - 1]) = Lower(lit[k])

reImgVidDateTime(f) ==
    /\ Fold(f, 1, <<"I", "M", "G">>) \/ Fold(f, 1, <<"V", "I", "D">>)
    /\ At(f, 4, {"_"}) /\ Digits(f, 5, 8) /\ At(f, 13, {"_"}) /\ Digits(f, 14, 6)

rePxlDateTimeMs(f) ==
    /\ Fold(f, 1, <<"P", "X", "L">>)
    /\ At(f, 4, {"_"}) /\ Digits(f, 5, 8) /\ At(f, 13, {"_"}) /\ Digits(f, 14, 6)
    /\ Digits(f, 20, 3)

reDashDots(f) ==
    /\ Digits(f, 1, 4) /\ At(f, 5, {"-"}) /\ Digits(f, 6, 2) /\ At(f, 8, {"-"})
    /\ Digits(f, 9, 2) /\ At(f, 11, {" ", "_"}) /\ Digits(f, 12, 2)
    /\ At(f, 14, {"."}) /\ Digits(f, 15, 2) /\ At(f, 17, {"."})
    /\ Digits(f, 18, 2)

reImgWhatsApp(f) ==
    /\ Fold(f, 1, <<"I", "M", "G">>)
    /\ At(f, 4, {"-"}) /\ Digits(f, 5, 8) /\ At(f, 13, {"-"})
    /\ Fold(f, 14, <<"W", "A">>) /\ Digits(f, 16, 1)

reScreenshot(f) ==
    /\ Fold(f, 1, <<"S", "c", "r", "e", "e", "n", "s", "h", "o", "t">>)
    /\ At(f, 11, {"_"}) /\ Digits(f, 12, 4) /\ At(f, 16, {"-"})
    /\ Digits(f, 17, 2) /\ At(f, 19, {"-"}) /\ Digits(f, 20, 2)
    /\ At(f, 22, {"-"}) /\ Digits(f, 23, 2) /\ At(f, 25, {"-"})
    /\ Digits(f, 26, 2) /\ At(f, 28, {"-"}) /\ Digits(f, 29, 2)

NotParsed == [t |-> ZeroValue, ok |-> FALSE]

parseYYYYMMDD(yyyymmdd) ==
    IF Len(yyyymmdd) # 8 THEN [year |-> 0, month |-> 0, day |-> 0, ok |-> FALSE]
    ELSE [year  |-> atoi(SubSeq(yyyymmdd, 1, 4)),
          month |-> atoi(SubSeq(yyyymmdd, 5, 6)),
          day   |-> atoi(SubSeq(yyyymmdd, 7, 8)),
          ok    |-> TRUE]

parseYYYYMMDD_HHMMSS(yyyymmdd, hhmmss, loc) ==
    LET ymd == parseYYYYMMDD(yyyymmdd)
    IN  IF ~ymd.ok \/ Len(hhmmss) # 6 THEN NotParsed
        ELSE [t  |-> Date(ymd.year, ymd.month, ymd.day,
                          atoi(SubSeq(hhmmss, 1, 2)), atoi(SubSeq(hhmmss, 3, 4)),
                          atoi(SubSeq(hhmmss, 5, 6)), loc),
              ok |-> TRUE]

\* parseFromFilename: the first pattern that matches decides.
parseFromFilename(filename, loc) ==
    IF reImgVidDateTime(filename) \/ rePxlDateTimeMs(filename)
    THEN parseYYYYMMDD_HHMMSS(SubSeq(filename, 5, 12),
                              SubSeq(filename, 14, 19), loc)
    ELSE IF reDashDots(filename)
    THEN [t  |-> Date(atoi(SubSeq(filename, 1, 4)), atoi(SubSeq(filename, 6, 7)),
                      atoi(SubSeq(filename, 9, 10)),
                      atoi(SubSeq(filename, 12, 13)),
                      atoi(SubSeq(filename, 15, 16)),
                      atoi(SubSeq(filename, 18, 19)), loc),
          ok |-> TRUE]
    ELSE IF reImgWhatsApp(filename)
    THEN LET ymd == parseYYYYMMDD(SubSeq(filename, 5, 12))
         IN  IF ~ymd.ok THEN NotParsed
             ELSE [t  |-> Date(ymd.year, ymd.month, ymd.day, 0, 0, 0, loc),
                   ok |-> TRUE]
    ELSE IF reScreenshot(filename)
    THEN [t  |-> Date(atoi(SubSeq(filename, 12, 15)),
                      atoi(SubSeq(filename, 17, 18)),
                      atoi(SubSeq(filename, 20, 21)),
                      atoi(SubSeq(filename, 23, 24)),
                      atoi(SubSeq(filename, 26, 27)),
                      atoi(SubSeq(filename, 29, 30)), loc),
          ok |-> TRUE]
    ELSE NotParsed

Result(createdAt, source) == [CreatedAt |-> createdAt, Source |-> source]

DetailedResult(chosen, metadata, filename, filestat) ==
    [Best |-> chosen, Metadata |-> metadata, Filename |-> filename,
     Filestat |-> filestat]

NoResult ==
    DetailedResult(Result(ZeroValue, ""), ZeroValue, ZeroValue, ZeroValue)

\* A choice that takes the metadata timestamp as it is.
chooseBestUnchecked(metadata, filename, filestat) ==
    Result(metadata, SourceMetadata)

\* A choice that looks at the file name before the metadata.
chooseBestFilenameFirst(metadata, filename, filestat) ==
    IF ~IsZeroInstant(filename) THEN Result(filename, SourceFilename)
    ELSE IF ~IsZeroInstant(metadata) THEN Result(metadata, SourceMetadata)
    ELSE IF ~IsZeroInstant(filestat) THEN Result(filestat, SourceMtime)
    ELSE Result(ZeroValue, SourceUnknown)

\* "Determine best according to priority"
chooseBest(metadata, filename, filestat) ==
    IF ~IsZeroInstant(metadata) THEN Result(metadata, SourceMetadata)
    ELSE IF ~IsZeroInstant(filename) THEN Result(filename, SourceFilename)
    ELSE IF ~IsZeroInstant(filestat) THEN Result(filestat, SourceMtime)
    ELSE Result(ZeroValue, SourceUnknown)

\* DetermineDetailed(fsys, path, opts) for a file whose modification time is
\* mtime and for which the metadata extractor answers extracted =
\* [t, ok, err]: the result and the error.
DetermineDetailed(path, location, extracted, mtime) ==
    LET metadata == IF extracted.err = "nil" /\ extracted.ok
                    THEN extracted.t ELSE ZeroValue
        parsed == parseFromFilename(Base(path), location)
        filename == IF parsed.ok THEN parsed.t ELSE ZeroValue
        filestat == IF ~IsZeroInstant(mtime) THEN mtime ELSE ZeroValue
    IN  IF path \notin DOMAIN fs \cup dirs
        THEN [err |-> "not exist", result |-> NoResult]
        ELSE IF Fails(path, "stat") THEN [err |-> "EIO", result |-> NoResult]
        ELSE IF path \in dirs THEN [err |-> "ErrInvalid", result |-> NoResult]
        ELSE IF Fails(path, "open") THEN [err |-> "open", result |-> NoResult]
        ELSE [err    |-> "nil",
              result |-> DetailedResult(chooseBest(metadata, filename, filestat),
                                        metadata, filename, filestat)]

\* Determine: the best result of DetermineDetailed.
Determine(path, location, extracted, mtime) ==
    LET detailed == DetermineDetailed(path, location, extracted, mtime)
    IN  IF detailed.err # "nil"
        THEN [err |-> detailed.err, result |-> Result(ZeroValue, "")]
        ELSE [err |-> "nil", result |-> detailed.result.Best]

\* A caller asks for the timestamps of detArgs.path.
CallDetermineDetailed ==
    /\ pc = "attribute"
    /\ detResult' = DetermineDetailed(detArgs.path, detArgs.location,
                                      detArgs.extracted, detArgs.mtime)
    /\ openFiles' = After(openFiles, DetermineDetailedHandles(detArgs.path))
    /\ pc' = "attributed"
    /\ UNCHANGED <<scanVars, detArgs, copyVars, eqVars, inputVars, err, dedupeVars,
                   planVars, resolveVars, finalDecisions>>

\* A caller asks for the best timestamp only.
CallDetermine ==
    /\ pc = "attribute"
    /\ LET r == Determine(detArgs.path, detArgs.location, detArgs.extracted,
                          detArgs.mtime)
       IN  detResult' =
               [err    |-> r.err,
                result |-> DetailedResult(r.result, ZeroValue, ZeroValue,
                                          ZeroValue)]
    /\ openFiles' = After(openFiles, DetermineDetailedHandles(detArgs.path))
    /\ pc' = "determined"
    /\ UNCHANGED <<scanVars, detArgs, copyVars, eqVars, inputVars, err, dedupeVars,
                   planVars, resolveVars, finalDecisions>>

IdleAttr ==
    /\ detArgs = [path |-> <<>>, location |-> UTC,
                  extracted |-> [t |-> ZeroValue, ok |-> FALSE, err |-> "nil"],
                  mtime |-> ZeroValue]
    /\ detResult = [err |-> "nil", result |-> NoResult]

----------------------------------------------------------------------------
(* The scanner.  fs.WalkDir visits a directory, then its entries in the    *)
(* order of their names; the callback of ScanRecords collects the media    *)
(* files and prunes the directories below MaxDepth.                        *)

\* strings.ToLower.
ToLower(str) == [i \in 1..Len(str) |-> Lower(str[i])]

\* strings.TrimSpace.
RECURSIVE TrimSpace(_)
TrimSpace(str) ==
    IF str = <<>> THEN str
    ELSE IF Head(str) = " " THEN TrimSpace(Tail(str))
    ELSE IF str[Len(str)] = " " THEN TrimSpace(SubSeq(str, 1, Len(str) - 1))
    ELSE str

\* normalizeExts: the keys of the map it returns.
normalizeExts(exts) ==
    LET e(i) == TrimSpace(ToLower(exts[i]))
    IN  {IF Head(e(i)) # "." THEN <<".">> \o e(i) ELSE e(i) :
            i \in {k \in 1..Len(exts) : e(k) # <<>>}}

\* filepath.Rel(root, path) for a path at or below root.
Rel(root, path) ==
    IF path = root THEN <<".">> ELSE SubSeq(path, Len(root) + 2, Len(path))

\* depth(rel): the number of separators of a clean relative path.
depth(rel) == IF rel = <<".">> THEN 0 ELSE Cardinality(Positions(rel, "/"))

Record(path, size, modTime) ==
    [Path |-> path, FileSizeBytes |-> size, ModTime |-> modTime]

\* The entries of directory dir, in the order fs.ReadDir returns them.
ReadDir(f, d, dir) ==
    SortedSeq({q \in (DOMAIN f) \cup d : Dir(q) = dir /\ q # dir})

\* A callback that counts the elements of a path as its depth, the file
\* name included.
walkFnCountingElements(f, d, root, opts, path) ==
    LET rel == Rel(root, path)
        ext == ToLower(Ext(rel))
        listed == ext \in normalizeExts(opts.PhotoExtensions)
                      \cup normalizeExts(opts.VideoExtensions)
    IN  IF path \in d
        THEN IF opts.MaxDepth >= 0 /\ rel # <<".">>
                /\ depth(rel) + 1 > opts.MaxDepth
             THEN [ret |-> "SkipDir", recs |-> <<>>]
             ELSE [ret |-> "nil", recs |-> <<>>]
        ELSE IF rel = <<".">> THEN [ret |-> "nil", recs |-> <<>>]
        ELSE IF opts.MaxDepth >= 0 /\ depth(rel) + 1 > opts.MaxDepth
        THEN [ret |-> "nil", recs |-> <<>>]
        ELSE IF ~listed THEN [ret |-> "nil", recs |-> <<>>]
        ELSE IF Fails(path, "stat") THEN [ret |-> "EIO", recs |-> <<>>]
        ELSE [ret |-> "nil",
              recs |-> <<Record(rel, Len(f[path]), details[path])>>]

\* The callback of ScanRecords on one path of the walk: what it returns and
\* the records it appends.
walkFn(f, d, root, opts, path) ==
    LET rel == Rel(root, path)
        ext == ToLower(Ext(rel))
        listed == ext \in normalizeExts(opts.PhotoExtensions)
                      \cup normalizeExts(opts.VideoExtensions)
    IN  IF path \in d
        THEN IF opts.MaxDepth >= 0 /\ rel # <<".">>
                /\ depth(rel) > opts.MaxDepth
             THEN [ret |-> "SkipDir", recs |-> <<>>]
             ELSE [ret |-> "nil", recs |-> <<>>]
        ELSE IF rel = <<".">> THEN [ret |-> "nil", recs |-> <<>>]
        ELSE IF opts.MaxDepth >= 0 /\ depth(rel) > opts.MaxDepth
        THEN [ret |-> "nil", recs |-> <<>>]
        ELSE IF ~listed THEN [ret |-> "nil", recs |-> <<>>]
        ELSE IF Fails(path, "stat") THEN [ret |-> "EIO", recs |-> <<>>]
        ELSE [ret |-> "nil",
              recs |-> <<Record(rel, Len(f[path]), details[path])>>]

\* fs.WalkDir from the paths still to visit, first to last: a file is handed
\* to the callback, a directory is handed to the callback and, unless the
\* callback answers SkipDir, replaced by its entries; an error ends the walk.
RECURSIVE walkDir(_, _, _, _, _, _)
walkDir(f, d, root, opts, paths, acc) ==
    IF paths = <<>> \/ acc.err # "nil" THEN acc
    ELSE LET path == Head(paths)
             r == walkFn(f, d, root, opts, path)
         IN  IF r.ret = "SkipDir"
             THEN walkDir(f, d, root, opts, Tail(paths), acc)
             ELSE IF r.ret # "nil" THEN [acc EXCEPT !.err = r.ret]
             ELSE IF path \notin d
             THEN walkDir(f, d, root, opts, Tail(paths),
                      [acc EXCEPT !.matches = @ \o r.recs])
             ELSE IF Fails(path, "read") THEN [acc EXCEPT !.err = "EIO"]
             ELSE walkDir(f, d, root, opts,
                      ReadDir(f, d, path) \o Tail(paths), acc)

\* sort.Slice(matches, by Path).
RECURSIVE sortByPath(_)
sortByPath(recs) ==
    IF recs = <<>> THEN <<>>
    ELSE LET i == CHOOSE k \in 1..Len(recs) :
                      \A m \in 1..Len(recs) :
                          ~StrLess(recs[m].Path, recs[k].Path)
         IN  <<recs[i]>> \o sortByPath(SubSeq(recs, 1, i - 1)
                                       \o SubSeq(recs, i + 1, Len(recs)))

\* ScanRecords(fsys, root, opts): the records and the error.
ScanRecords(f, d, root, opts) ==
    IF opts.MaxDepth < -1 THEN [records |-> <<>>, err |-> "ErrInvalid"]
    ELSE IF root \notin (DOMAIN f) \cup d
    THEN [records |-> <<>>, err |-> "not exist"]
    ELSE IF Fails(root, "stat") THEN [records |-> <<>>, err |-> "EIO"]
    ELSE LET w == walkDir(f, d, root, opts, <<root>>,
                          [matches |-> <<>>, err |-> "nil"])
         IN  IF w.err # "nil" THEN [records |-> <<>>, err |-> w.err]
             ELSE [records |-> sortByPath(w.matches), err |-> "nil"]

\* Scan(fsys, root, opts): the paths of the records.
Scan(f, d, root, opts) ==
    LET r == ScanRecords(f, d, root, opts)
    IN  IF r.err # "nil" THEN [matches |-> <<>>, err |-> r.err]
        ELSE [matches |-> [i \in 1..Len(r.records) |-> r.records[i].Path],
              err |-> "nil"]

\* A caller asks for the records under scanArgs.root.
CallScanRecords ==
    /\ pc = "scan"
    /\ LET r == ScanRecords(fs, dirs, scanArgs.root, scanArgs.opts)
       IN  scanResult' = [err |-> r.err, records |-> r.records,
                          matches |-> <<>>]
    /\ pc' = "scanned"
    /\ UNCHANGED <<scanArgs, openFiles, attrVars, copyVars, eqVars, inputVars,
                   err, dedupeVars, planVars, resolveVars, finalDecisions>>

\* A caller asks for the paths under scanArgs.root.
CallScan ==
    /\ pc = "scan"
    /\ LET r == Scan(fs, dirs, scanArgs.root, scanArgs.opts)
       IN  scanResult' = [err |-> r.err, records |-> <<>>,
                          matches |-> r.matches]
    /\ pc' = "listed"
    /\ UNCHANGED <<scanArgs, openFiles, attrVars, copyVars, eqVars, inputVars,
                   err, dedupeVars, planVars, resolveVars, finalDecisions>>

IdleScan ==
    /\ scanArgs = [root |-> <<>>,
                   opts |-> [MaxDepth |-> -1, PhotoExtensions |-> <<>>,
                             VideoExtensions |-> <<>>]]
    /\ scanResult = [err |-> "nil", records |-> <<>>, matches |-> <<>>]

----------------------------------------------------------------------------
(* The duplicate resolver.                                                 *)

\* A Decision; the empty string and the nil error are the zero values.
Decision(src, planned, final, action, dupOf) ==
    [SourcePath |-> src, DestinationPath |-> planned,
     FinalDestinationPath |-> final, Action |-> action,
     DuplicateOf |-> dupOf, Error |-> "nil"]

ActionCopy == "copy"
ActionCopyRenamed == "copy_renamed"
ActionCopied == "copied"
ActionCopiedRenamed == "copied_renamed"
ActionSkippedIdentical == "skipped_identical"
ActionSkippedDuplicateSrc == "skipped_duplicate_source"
ActionFailed == "failed"

SeqToSet(q) == {q[i] : i \in 1..Len(q)}

\* The subsequence of q whose elements are in S (order kept).
RECURSIVE Filter(_, _)
Filter(q, S) ==
    IF q = <<>> THEN <<>>
    ELSE IF q[1] \in S THEN <<q[1]>> \o Filter(Tail(q), S)
    ELSE Filter(Tail(q), S)

\* The loop with the comparison turned round: the latest timestamp wins.
RECURSIVE pickNewestLoop(_, _, _, _)
pickNewestLoop(paths, i, best, bestTime) ==
    IF i > Len(paths) THEN best
    ELSE LET p == paths[i]
             t == details[p]
         IN  IF IsZero(t) THEN pickNewestLoop(paths, i + 1, best, bestTime)
             ELSE IF \/ best = <<>>
                     \/ IsZero(bestTime)
                     \/ Before(bestTime, t)
                     \/ (TimeEqual(t, bestTime) /\ StrLess(p, best))
                  THEN pickNewestLoop(paths, i + 1, p, t)
                  ELSE pickNewestLoop(paths, i + 1, best, bestTime)

\* The loop without the tie-break on the path: the first of the earliest wins.
RECURSIVE pickFirstOldestLoop(_, _, _, _)
pickFirstOldestLoop(paths, i, best, bestTime) ==
    IF i > Len(paths) THEN best
    ELSE LET p == paths[i]
             t == details[p]
         IN  IF IsZero(t) THEN pickFirstOldestLoop(paths, i + 1, best, bestTime)
             ELSE IF \/ best = <<>>
                     \/ IsZero(bestTime)
                     \/ Before(t, bestTime)
                  THEN pickFirstOldestLoop(paths, i + 1, p, t)
                  ELSE pickFirstOldestLoop(paths, i + 1, best, bestTime)

\* The loop over the known timestamps in pickOldest: the state is
\* <<best, bestTime>>, and best = "" means nothing chosen yet.
RECURSIVE pickOldestLoop(_, _, _, _)
pickOldestLoop(paths, i, best, bestTime) ==
    IF i > Len(paths) THEN best
    ELSE LET p == paths[i]
             t == details[p]
         IN  IF IsZero(t) THEN pickOldestLoop(paths, i + 1, best, bestTime)
             ELSE IF \/ best = <<>>
                     \/ IsZero(bestTime)
                     \/ Before(t, bestTime)
                     \/ (TimeEqual(t, bestTime) /\ StrLess(p, best))
                  THEN pickOldestLoop(paths, i + 1, p, t)
                  ELSE pickOldestLoop(paths, i + 1, best, bestTime)

\* The fallback loop of pickOldest: the lexicographically smallest path.
RECURSIVE smallestPath(_, _, _)
smallestPath(paths, i, best) ==
    IF i > Len(paths) THEN best
    ELSE IF StrLess(paths[i], best) THEN smallestPath(paths, i + 1, paths[i])
    ELSE smallestPath(paths, i + 1, best)

pickOldest(paths) ==
    LET best == pickOldestLoop(paths, 1, <<>>, ZeroTime)
    IN  IF best # <<>> THEN best
        ELSE smallestPath(paths, 2, paths[1])

\* headerHash: the SHA-256 digest of the first min(size, headerBytes) bytes
\* of the file, size being the caller's idea of the file's size.  The digest
\* is modelled by the bytes it is taken of (no collisions).
headerHash(path, size) ==
    LET limit == IF size < headerBytes THEN size ELSE headerBytes
        r == ReadFull(path, 0, limit)
    IN  IF ~Exists(path) \/ Fails(path, "open")
        THEN [err |-> "open", hash |-> <<>>]
        ELSE IF r.err \notin {"nil", "EOF", "ErrUnexpectedEOF"}
        THEN [err |-> "read header", hash |-> <<>>]
        ELSE [err |-> "nil", hash |-> r.data]

\* A search that takes the equal header hash as proof: p joins the first
\* representative of its header group.
findRepByHash(p, reps, j) ==
    IF j > Len(reps) THEN [err |-> "nil", rep |-> <<>>]
    ELSE [err |-> "nil", rep |-> reps[j]]

\* The search "for _, rep := range reps" for the cluster of p: the first
\* representative p is identical to, <<>> if there is none.
RECURSIVE findRep(_, _, _)
findRep(p, reps, j) ==
    IF j > Len(reps) THEN [err |-> "nil", rep |-> <<>>]
    ELSE LET r == filesAreIdentical(p, reps[j])
         IN  IF r.err # "nil" THEN [err |-> r.err, rep |-> <<>>]
             ELSE IF r.identical THEN [err |-> "nil", rep |-> reps[j]]
             ELSE findRep(p, reps, j + 1)

\* "Partition into exact-equality clusters": reps is the running list of
\* representatives, clusters maps a representative to its members.
RECURSIVE partition(_, _, _, _)
partition(candidates, i, reps, clusters) ==
    IF i > Len(candidates)
    THEN [err |-> "nil", reps |-> reps, clusters |-> clusters]
    ELSE LET p == candidates[i]
             f == findRep(p, reps, 1)
         IN  IF f.err # "nil"
             THEN [err |-> f.err, reps |-> <<>>, clusters |-> <<>>]
             ELSE IF f.rep # <<>>
             THEN partition(candidates, i + 1, reps,
                      [clusters EXCEPT ![f.rep] = Append(@, p)])
             ELSE partition(candidates, i + 1, Append(reps, p),
                      [r \in DOMAIN clusters \cup {p} |->
                          IF r = p THEN <<p>> ELSE clusters[r]])

\* A choice that records the representative of the cluster, not the
\* canonical member, as DuplicateOf.
chooseCanonicalDupOfRep(reps, clusters) ==
    LET canon(rep) == pickOldest(clusters[rep])
        repSet == SeqToSet(reps)
        skipped == {m \in UNION {SeqToSet(clusters[r]) : r \in repSet} :
                       \E r \in repSet :
                           m \in SeqToSet(clusters[r]) /\ m # canon(r)}
    IN  [keep |-> {canon(r) : r \in repSet},
         skip |-> skipped,
         dup  |-> [m \in skipped |->
                     CHOOSE r \in repSet : m \in SeqToSet(clusters[r])]]

\* "For each cluster, choose the canonical one": the additions to keptSet,
\* skipSet and duplicateOf made for the clusters of one header group.
chooseCanonical(reps, clusters) ==
    LET canon(rep) == pickOldest(clusters[rep])
        repSet == SeqToSet(reps)
        skipped == {m \in UNION {SeqToSet(clusters[r]) : r \in repSet} :
                       \E r \in repSet :
                           m \in SeqToSet(clusters[r]) /\ m # canon(r)}
    IN  [keep |-> {canon(r) : r \in repSet},
         skip |-> skipped,
         dup  |-> [m \in skipped |->
                     canon(CHOOSE r \in repSet : m \in SeqToSet(clusters[r]))]]

\* Function override: g wins where both are defined.
Override(f, g) ==
    [x \in DOMAIN f \cup DOMAIN g |-> IF x \in DOMAIN g THEN g[x] ELSE f[x]]

\* The first loop of DedupeSources: group the sources by recorded size; a
\* source without a recorded size fails the call.
DedupeStart ==
    /\ pc = "idle"
    /\ Len(firstRun) < MaxRuns
    /\ IF \E i \in 1..Len(sources) : sources[i] \notin DOMAIN sizes
       THEN /\ pc' = "done"
            /\ err' = "missing size"
            /\ UNCHANGED <<bySize, sizesLeft>>
       ELSE /\ pc' = "sizes"
            /\ err' = "nil"
            /\ bySize' = [z \in {sizes[sources[i]] : i \in 1..Len(sources)} |->
                             Filter(sources, {p \in DOMAIN sizes : sizes[p] = z})]
            /\ sizesLeft' = {sizes[sources[i]] : i \in 1..Len(sources)}
    /\ UNCHANGED <<headerGroups, groupsLeft, keptSet, skipSet, duplicateOf,
                   kept, decisions, firstRun>>
    /\ UNCHANGED <<scanVars, openFiles, attrVars, copyVars, eqVars, inputVars, planVars, resolveVars,
                   finalDecisions>>

\* An iteration that starts keptSet afresh for a size group of one file.
DedupeSizeGroupReset(size) ==
    /\ pc = "sizes"
    /\ size \in sizesLeft
    /\ sizesLeft' = sizesLeft \ {size}
    /\ LET paths == bySize[size]
           hashes == [i \in 1..Len(paths) |-> headerHash(paths[i], size)]
       IN  IF Len(paths) = 1
           THEN /\ keptSet' = {paths[1]}
                /\ UNCHANGED <<pc, headerGroups, groupsLeft, err>>
           ELSE IF \E i \in 1..Len(paths) : hashes[i].err # "nil"
           THEN /\ pc' = "done"
                /\ err' = hashes[Least({i \in 1..Len(paths) :
                                           hashes[i].err # "nil"})].err
                /\ UNCHANGED <<keptSet, headerGroups, groupsLeft>>
           ELSE /\ pc' = "headers"
                /\ headerGroups' =
                       [h \in {hashes[i].hash : i \in 1..Len(paths)} |->
                           Filter(paths, {p \in SeqToSet(paths) :
                                             headerHash(p, size).hash = h})]
                /\ groupsLeft' = {hashes[i].hash : i \in 1..Len(paths)}
                /\ UNCHANGED <<keptSet, err>>
    /\ UNCHANGED <<bySize, skipSet, duplicateOf, kept, decisions, firstRun>>
    /\ UNCHANGED <<scanVars, openFiles, attrVars, copyVars, eqVars, inputVars, planVars, resolveVars,
                   finalDecisions>>

\* One iteration of "for size, paths := range bySize", up to the grouping by
\* header hash.  The map is visited in an arbitrary order.
DedupeSizeGroup(size) ==
    /\ pc = "sizes"
    /\ size \in sizesLeft
    /\ sizesLeft' = sizesLeft \ {size}
    /\ LET paths == bySize[size]
           hashes == [i \in 1..Len(paths) |-> headerHash(paths[i], size)]
       IN  IF Len(paths) = 1
           THEN /\ keptSet' = keptSet \cup {paths[1]}
                /\ UNCHANGED <<pc, headerGroups, groupsLeft, err>>
           ELSE IF \E i \in 1..Len(paths) : hashes[i].err # "nil"
           THEN /\ pc' = "done"
                /\ err' = hashes[Least({i \in 1..Len(paths) :
                                           hashes[i].err # "nil"})].err
                /\ UNCHANGED <<keptSet, headerGroups, groupsLeft>>
           ELSE /\ pc' = "headers"
                /\ headerGroups' =
                       [h \in {hashes[i].hash : i \in 1..Len(paths)} |->
                           Filter(paths, {p \in SeqToSet(paths) :
                                             headerHash(p, size).hash = h})]
                /\ groupsLeft' = {hashes[i].hash : i \in 1..Len(paths)}
                /\ UNCHANGED <<keptSet, err>>
    /\ UNCHANGED <<bySize, skipSet, duplicateOf, kept, decisions, firstRun>>
    /\ UNCHANGED <<scanVars, openFiles, attrVars, copyVars, eqVars, inputVars, planVars, resolveVars,
                   finalDecisions>>

\* One iteration of "for _, candidates := range headerGroups", again in an
\* arbitrary order; after the last one the outer loop goes on.
DedupeHeaderGroup(h) ==
    /\ pc = "headers"
    /\ h \in groupsLeft
    /\ groupsLeft' = groupsLeft \ {h}
    /\ LET candidates == headerGroups[h]
           parts == partition(candidates, 1, <<>>, <<>>)
           chosen == chooseCanonical(parts.reps, parts.clusters)
           back == IF groupsLeft = {h} THEN "sizes" ELSE "headers"
       IN  IF Len(candidates) = 1
           THEN /\ keptSet' = keptSet \cup {candidates[1]}
                /\ pc' = back
                /\ UNCHANGED <<skipSet, duplicateOf, err>>
           ELSE IF parts.err # "nil"
           THEN /\ pc' = "done"
                /\ err' = parts.err
                /\ UNCHANGED <<keptSet, skipSet, duplicateOf>>
           ELSE /\ keptSet' = keptSet \cup chosen.keep
                /\ skipSet' = skipSet \cup chosen.skip
                /\ duplicateOf' = Override(duplicateOf, chosen.dup)
                /\ pc' = back
                /\ UNCHANGED err
    /\ UNCHANGED <<bySize, sizesLeft, headerGroups, kept, decisions, firstRun>>
    /\ UNCHANGED <<scanVars, openFiles, attrVars, copyVars, eqVars, inputVars, planVars, resolveVars,
                   finalDecisions>>

\* The decision of DedupeSources for one source.
dedupeDecision(p) ==
    IF p \in skipSet
    THEN Decision(p, <<>>, <<>>, ActionSkippedDuplicateSrc, duplicateOf[p])
    ELSE IF p \in keptSet THEN Decision(p, <<>>, <<>>, ActionCopy, <<>>)
    ELSE Decision(p, <<>>, <<>>, ActionFailed, <<>>)

\* The last loop of DedupeSources: one decision per source, in source order.
DedupeFinish ==
    /\ pc = "sizes"
    /\ sizesLeft = {}
    /\ pc' = "done"
    /\ decisions' = [i \in 1..Len(sources) |-> dedupeDecision(sources[i])]
    /\ kept' = Filter(sources, keptSet \ skipSet)
    /\ UNCHANGED <<bySize, sizesLeft, headerGroups, groupsLeft, keptSet,
                   skipSet, duplicateOf, err, firstRun>>
    /\ UNCHANGED <<scanVars, openFiles, attrVars, copyVars, eqVars, inputVars, planVars, resolveVars,
                   finalDecisions>>

\* The caller takes the result and may call DedupeSources again on the same
\* inputs: every local of the call starts afresh.
DedupeReturn ==
    /\ pc = "done"
    /\ Len(firstRun) < MaxRuns
    /\ firstRun' = Append(firstRun,
                     [kept |-> kept, decisions |-> decisions, err |-> err])
    /\ pc' = "idle"
    /\ bySize' = <<>>
    /\ sizesLeft' = {}
    /\ headerGroups' = <<>>
    /\ groupsLeft' = {}
    /\ keptSet' = {}
    /\ skipSet' = {}
    /\ duplicateOf' = <<>>
    /\ kept' = <<>>
    /\ decisions' = <<>>
    /\ err' = "nil"
    /\ UNCHANGED <<scanVars, openFiles, attrVars, copyVars, eqVars, inputVars, planVars, resolveVars,
                   finalDecisions>>

----------------------------------------------------------------------------
(* The destination planner.  A reservation map is the set of its keys.     *)

Operation(src, dst) == [SourcePath |-> src, DestinationPath |-> dst]

DestRoot == <<"o">>
UnknownDir == <<"u", "n", "k", "n", "o", "w", "n">>

Year(t) == t[1]
Month(t) == t[2]
Day(t) == t[3]

\* A suffix loop that numbers its candidates from 2.
RECURSIVE suffixLoopFromTwo(_, _, _, _, _)
suffixLoopFromTwo(dir, nameWithoutExt, ext, i, existing) ==
    LET candidate == Join(dir, Suffixed(nameWithoutExt, i + 1, ext))
    IN  IF candidate \notin existing
        THEN [path |-> candidate, existing |-> existing \cup {candidate}]
        ELSE suffixLoopFromTwo(dir, nameWithoutExt, ext, i + 1, existing)

\* The loop "for i := 1; ; i++" of resolveCollision and unknownDestination:
\* the first suffixed candidate that is not reserved.
RECURSIVE suffixLoop(_, _, _, _, _)
suffixLoop(dir, nameWithoutExt, ext, i, existing) ==
    LET candidate == Join(dir, Suffixed(nameWithoutExt, i, ext))
    IN  IF candidate \notin existing
        THEN [path |-> candidate, existing |-> existing \cup {candidate}]
        ELSE suffixLoop(dir, nameWithoutExt, ext, i + 1, existing)

\* resolveCollision: the chosen path and the reservation map after the call.
resolveCollision(dir, filename, existing) ==
    LET basePath == Join(dir, filename)
        ext == Ext(filename)
        nameWithoutExt == TrimSuffix(filename, ext)
    IN  IF basePath \notin existing
        THEN [path |-> basePath, existing |-> existing \cup {basePath}]
        ELSE suffixLoop(dir, nameWithoutExt, ext, 1, existing)

\* The directory <destRoot>/YYYY/MM/DD of Destination.
dateDir(destRoot, createdAt) ==
    Join(Join(Join(destRoot, PadZero(Itoa(Year(createdAt)), 4)),
              PadZero(Itoa(Month(createdAt)), 2)),
         PadZero(Itoa(Day(createdAt)), 2))

Destination(destRoot, filename, createdAt, existing) ==
    resolveCollision(dateDir(destRoot, createdAt), filename, existing)

unknownDestination(destRoot, filename, existing) ==
    LET dir == Join(destRoot, UnknownDir)
        basePath == Join(dir, filename)
        ext == Ext(filename)
        nameWithoutExt == TrimSuffix(filename, ext)
    IN  IF basePath \notin existing
        THEN [path |-> basePath, existing |-> existing \cup {basePath}]
        ELSE suffixLoop(dir, nameWithoutExt, ext, 1, existing)

\* A planning loop that dates every source that has an entry in the map,
\* the zero timestamp included.
RECURSIVE PlanDestinationsZeroDated(_, _, _, _, _, _)
PlanDestinationsZeroDated(destRoot, srcs, best, i, existing, acc) ==
    IF i > Len(srcs) THEN [ops |-> acc, existing |-> existing]
    ELSE LET src == srcs[i]
             filename == Base(src)
             r == IF src \in DOMAIN best
                  THEN Destination(destRoot, filename, best[src], existing)
                  ELSE unknownDestination(destRoot, filename, existing)
         IN  PlanDestinationsZeroDated(destRoot, srcs, best, i + 1,
                                       r.existing \cup {r.path},
                                       Append(acc, Operation(src, r.path)))

\* The loop of PlanDestinations over the sources from index i on.
RECURSIVE PlanDestinations(_, _, _, _, _, _)
PlanDestinations(destRoot, srcs, best, i, existing, acc) ==
    IF i > Len(srcs) THEN [ops |-> acc, existing |-> existing]
    ELSE LET src == srcs[i]
             filename == Base(src)
             r == IF src \in DOMAIN best /\ ~IsZero(best[src])
                  THEN Destination(destRoot, filename, best[src], existing)
                  ELSE unknownDestination(destRoot, filename, existing)
         IN  PlanDestinations(destRoot, srcs, best, i + 1,
                              r.existing \cup {r.path},
                              Append(acc, Operation(src, r.path)))

\* A loop that reserves, for a source without an entry, the destination of
\* the zero time the map lookup yields, and returns no Operation for it.
RECURSIVE PlanReservingSkipped(_, _, _, _, _, _)
PlanReservingSkipped(destRoot, srcs, createdAtMap, i, existing, acc) ==
    IF i > Len(srcs) THEN [ops |-> acc, existing |-> existing]
    ELSE LET src == srcs[i]
             r == Destination(destRoot, Base(src),
                              IF src \in DOMAIN createdAtMap
                              THEN createdAtMap[src] ELSE ZeroTime, existing)
         IN  IF src \notin DOMAIN createdAtMap
             THEN PlanReservingSkipped(destRoot, srcs, createdAtMap, i + 1,
                                       r.existing, acc)
             ELSE PlanReservingSkipped(destRoot, srcs, createdAtMap, i + 1,
                                       r.existing,
                                       Append(acc, Operation(src, r.path)))

\* The loop of plan.Plan over the sources from index i on: a source without
\* an entry in the created-at map is skipped.
RECURSIVE Plan(_, _, _, _, _, _)
Plan(destRoot, srcs, createdAtMap, i, existing, acc) ==
    IF i > Len(srcs) THEN [ops |-> acc, existing |-> existing]
    ELSE LET src == srcs[i]
             r == Destination(destRoot, Base(src), createdAtMap[src], existing)
         IN  IF src \notin DOMAIN createdAtMap
             THEN Plan(destRoot, srcs, createdAtMap, i + 1, existing, acc)
             ELSE Plan(destRoot, srcs, createdAtMap, i + 1, r.existing,
                       Append(acc, Operation(src, r.path)))

\* reconcile.PlanDestinations(destination, sources, bestCreatedAt)
CallPlanDestinations ==
    /\ pc = "idle"
    /\ LET r == PlanDestinations(DestRoot, sources, bestCreatedAt, 1, {}, <<>>)
       IN  /\ ops' = r.ops
           /\ existingFiles' = r.existing
    /\ pc' = "planned"
    /\ UNCHANGED <<scanVars, openFiles, attrVars, copyVars, eqVars, inputVars, err, dedupeVars, bestCreatedAt,
                   resolveVars, finalDecisions>>

\* plan.Plan(destRoot, sources, createdAtMap)
CallPlan ==
    /\ pc = "idle"
    /\ LET r == Plan(DestRoot, sources, bestCreatedAt, 1, {}, <<>>)
       IN  /\ ops' = r.ops
           /\ existingFiles' = r.existing
    /\ pc' = "planned"
    /\ UNCHANGED <<scanVars, openFiles, attrVars, copyVars, eqVars, inputVars, err, dedupeVars, bestCreatedAt,
                   resolveVars, finalDecisions>>

\* A caller that hands the sources one by one to plan.Destination with one
\* reservation map, starting from an empty map.
CallDestination ==
    /\ pc \in {"idle", "destination"}
    /\ Len(ops) < Len(sources)
    /\ \A i \in 1..Len(sources) : sources[i] \in DOMAIN bestCreatedAt
    /\ LET src == sources[Len(ops) + 1]
           r == Destination(DestRoot, Base(src), bestCreatedAt[src], existingFiles)
       IN  /\ ops' = Append(ops, Operation(src, r.path))
           /\ existingFiles' = r.existing
    /\ pc' = IF Len(ops) + 1 = Len(sources) THEN "planned" ELSE "destination"
    /\ UNCHANGED <<scanVars, openFiles, attrVars, copyVars, eqVars, inputVars, err, dedupeVars, bestCreatedAt,
                   resolveVars, finalDecisions>>

----------------------------------------------------------------------------
(* The destination reconciler.                                             *)

\* The outcome r of the later candidates, after candidate was stat'ed and
\* compared with the source.
Seen(candidate, r) ==
    [r EXCEPT !.stats = <<candidate>> \o @, !.compares = <<candidate>> \o @]

\* A probing loop that ignores the reservations of the call.
RECURSIVE probeUnreserved(_, _, _, _)
probeUnreserved(op, destDir, n, res) ==
    LET filename == Base(op.SourcePath)
        ext == Ext(filename)
        base == TrimSuffix(filename, ext)
        candidate == IF n = 0 THEN Join(destDir, filename)
                     ELSE Join(destDir, Suffixed(base, n, ext))
        st == Stat(candidate)
        cmp == filesAreIdentical(op.SourcePath, candidate)
    IN  IF st.err = "not exist"
        THEN [err |-> "nil", final |-> candidate, reserve |-> TRUE,
              action |-> IF n = 0 THEN ActionCopy ELSE ActionCopyRenamed,
              stats |-> <<candidate>>, compares |-> <<>>]
        ELSE IF st.err # "nil"
        THEN [err |-> "stat", final |-> <<>>, reserve |-> FALSE, action |-> "",
              stats |-> <<candidate>>, compares |-> <<>>]
        ELSE IF cmp.err # "nil"
        THEN [err |-> cmp.err, final |-> <<>>, reserve |-> FALSE, action |-> "",
              stats |-> <<candidate>>, compares |-> <<candidate>>]
        ELSE IF cmp.identical
        THEN [err |-> "nil", final |-> candidate, reserve |-> FALSE,
              action |-> ActionSkippedIdentical,
              stats |-> <<candidate>>, compares |-> <<candidate>>]
        ELSE Seen(candidate, probeUnreserved(op, destDir, n + 1, res))

\* A probing loop that takes any existing candidate for an identical one.
RECURSIVE probeNoCompare(_, _, _, _)
probeNoCompare(op, destDir, n, res) ==
    LET filename == Base(op.SourcePath)
        ext == Ext(filename)
        base == TrimSuffix(filename, ext)
        candidate == IF n = 0 THEN Join(destDir, filename)
                     ELSE Join(destDir, Suffixed(base, n, ext))
        st == Stat(candidate)
    IN  IF candidate \in res THEN probeNoCompare(op, destDir, n + 1, res)
        ELSE IF st.err = "not exist"
        THEN [err |-> "nil", final |-> candidate, reserve |-> TRUE,
              action |-> IF n = 0 THEN ActionCopy ELSE ActionCopyRenamed,
              stats |-> <<candidate>>, compares |-> <<>>]
        ELSE IF st.err # "nil"
        THEN [err |-> "stat", final |-> <<>>, reserve |-> FALSE, action |-> "",
              stats |-> <<candidate>>, compares |-> <<>>]
        ELSE [err |-> "nil", final |-> candidate, reserve |-> FALSE,
              action |-> ActionSkippedIdentical,
              stats |-> <<candidate>>, compares |-> <<>>]

\* The loop "for n := 0; ; n++" of ResolveAgainstDestination for one
\* operation, from candidate n on, with the reservations res.
RECURSIVE probe(_, _, _, _)
probe(op, destDir, n, res) ==
    LET filename == Base(op.SourcePath)
        ext == Ext(filename)
        base == TrimSuffix(filename, ext)
        candidate == IF n = 0 THEN Join(destDir, filename)
                     ELSE Join(destDir, Suffixed(base, n, ext))
        st == Stat(candidate)
        cmp == filesAreIdentical(op.SourcePath, candidate)
    IN  IF candidate \in res THEN probe(op, destDir, n + 1, res)
        ELSE IF st.err = "not exist"
        THEN [err |-> "nil", final |-> candidate, reserve |-> TRUE,
              action |-> IF n = 0 THEN ActionCopy ELSE ActionCopyRenamed,
              stats |-> <<candidate>>, compares |-> <<>>]
        ELSE IF st.err # "nil"
        THEN [err |-> "stat", final |-> <<>>, reserve |-> FALSE, action |-> "",
              stats |-> <<candidate>>, compares |-> <<>>]
        ELSE IF cmp.err # "nil"
        THEN [err |-> cmp.err, final |-> <<>>, reserve |-> FALSE, action |-> "",
              stats |-> <<candidate>>, compares |-> <<candidate>>]
        ELSE IF cmp.identical
        THEN [err |-> "nil", final |-> candidate, reserve |-> FALSE,
              action |-> ActionSkippedIdentical,
              stats |-> <<candidate>>, compares |-> <<candidate>>]
        ELSE Seen(candidate, probe(op, destDir, n + 1, res))

\* An iteration that goes on with the reservations of the call before.
ResolveOpSharingReservations ==
    /\ pc \in {"planned", "resolving"}
    /\ LET res == reserved
           cur == IF pc = "planned" THEN <<>> ELSE destDecisions
           log == IF pc = "planned" THEN <<>> ELSE probed
       IN  /\ Len(cur) < Len(ops)
           /\ LET op == ops[Len(cur) + 1]
                  planned == op.DestinationPath
                  r == probe(op, Dir(planned), 0, res)
              IN  IF r.err # "nil"
                  THEN /\ pc' = "resolved"
                       /\ err' = r.err
                       /\ destDecisions' = <<>>
                       /\ reserved' = res
                       /\ probed' = log
                  ELSE /\ pc' = "resolving"
                       /\ destDecisions' =
                              Append(cur,
                                     Decision(op.SourcePath, planned, r.final,
                                              r.action, <<>>))
                       /\ reserved' = IF r.reserve THEN res \cup {r.final}
                                      ELSE res
                       /\ probed' = Append(log, [stats |-> r.stats,
                                                 compares |-> r.compares])
                       /\ UNCHANGED err
    /\ UNCHANGED <<scanVars, openFiles, attrVars, copyVars, eqVars, inputVars,
                   dedupeVars, planVars, resolvedBefore, loopN, finalDecisions>>

\* One iteration of "for _, op := range ops" in ResolveAgainstDestination;
\* an error ends the call without decisions.
ResolveOp ==
    /\ pc \in {"planned", "resolving"}
    /\ LET res == IF pc = "planned" THEN {} ELSE reserved
           cur == IF pc = "planned" THEN <<>> ELSE destDecisions
           log == IF pc = "planned" THEN <<>> ELSE probed
       IN  /\ Len(cur) < Len(ops)
           /\ LET op == ops[Len(cur) + 1]
                  planned == op.DestinationPath
                  r == probe(op, Dir(planned), 0, res)
              IN  IF r.err # "nil"
                  THEN /\ pc' = "resolved"
                       /\ err' = r.err
                       /\ destDecisions' = <<>>
                       /\ reserved' = res
                       /\ probed' = log
                  ELSE /\ pc' = "resolving"
                       /\ destDecisions' =
                              Append(cur,
                                     Decision(op.SourcePath, planned, r.final,
                                              r.action, <<>>))
                       /\ reserved' = IF r.reserve THEN res \cup {r.final}
                                      ELSE res
                       /\ probed' = Append(log, [stats |-> r.stats,
                                                 compares |-> r.compares])
                       /\ UNCHANGED err
    /\ UNCHANGED <<scanVars, openFiles, attrVars, copyVars, eqVars, inputVars,
                   dedupeVars, planVars, resolvedBefore, loopN, finalDecisions>>

\* ResolveAgainstDestination returns its decisions.
ResolveReturn ==
    /\ pc \in {"planned", "resolving"}
    /\ LET cur == IF pc = "planned" THEN <<>> ELSE destDecisions
       IN  /\ Len(cur) = Len(ops)
           /\ destDecisions' = cur
           /\ reserved' = IF pc = "planned" THEN {} ELSE reserved
           /\ probed' = IF pc = "planned" THEN <<>> ELSE probed
    /\ pc' = "resolved"
    /\ UNCHANGED <<scanVars, openFiles, attrVars, copyVars, eqVars, inputVars,
                   err, dedupeVars, planVars, resolvedBefore, loopN, finalDecisions>>

\* The caller keeps what the call returned and starts over with the same
\* sources and the same destination: it plans and reconciles once more.
ResolveAgain ==
    /\ pc = "resolved"
    /\ err = "nil"
    /\ Len(resolvedBefore) < MaxRuns - 1
    /\ resolvedBefore' = Append(resolvedBefore,
                            [ops |-> ops, existing |-> existingFiles,
                             decisions |-> destDecisions, probed |-> probed])
    /\ pc' = "idle"
    /\ UNCHANGED <<scanVars, openFiles, attrVars, copyVars, eqVars, inputVars,
                   err, dedupeVars, planVars, reserved, destDecisions, probed,
                   loopN, finalDecisions>>

----------------------------------------------------------------------------
(* The candidate loops, one iteration at a time.                           *)

\* The most iterations a candidate loop is given.
LoopCap == MaxSources + MaxDestFiles + 2

\* The directory and the file name that PlanDestinations uses for src.
PlanDirOf(src) ==
    IF src \in DOMAIN bestCreatedAt /\ ~IsZero(bestCreatedAt[src])
    THEN dateDir(DestRoot, bestCreatedAt[src])
    ELSE Join(DestRoot, UnknownDir)

\* PlanDestinations takes the next source: the unsuffixed path if it is not
\* reserved, else the loop "for i := 1; ; i++" of resolveCollision or
\* unknownDestination begins.
PlanSource ==
    /\ pc \in {"idle", "planning"}
    /\ LET cur == IF pc = "idle" THEN <<>> ELSE ops
           existing == IF pc = "idle" THEN {} ELSE existingFiles
       IN  /\ Len(cur) < Len(sources)
           /\ LET src == sources[Len(cur) + 1]
                  basePath == Join(PlanDirOf(src), Base(src))
              IN  IF basePath \notin existing
                  THEN /\ ops' = Append(cur, Operation(src, basePath))
                       /\ existingFiles' = existing \cup {basePath}
                       /\ pc' = "planning"
                       /\ loopN' = 0
                  ELSE /\ ops' = cur
                       /\ existingFiles' = existing
                       /\ pc' = "suffix"
                       /\ loopN' = 1
    /\ UNCHANGED <<scanVars, openFiles, attrVars, copyVars, eqVars, inputVars,
                   err, dedupeVars, bestCreatedAt, reserved, destDecisions,
                   probed, resolvedBefore, finalDecisions>>

\* A suffix loop whose candidate does not depend on i.
SuffixStepSameCandidate ==
    /\ pc = "suffix"
    /\ \E src \in {sources[Len(ops) + 1]} :
       \E filename \in {Base(src)} :
       \E ext \in {Ext(filename)} :
       \E nameWithoutExt \in {TrimSuffix(filename, ext)} :
       \E candidate \in {Join(PlanDirOf(src),
                             Suffixed(nameWithoutExt, 1, ext))} :
           IF candidate \notin existingFiles
           THEN /\ ops' = Append(ops, Operation(src, candidate))
                /\ existingFiles' = existingFiles \cup {candidate}
                /\ pc' = "planning"
                /\ loopN' = 0
           ELSE /\ loopN < LoopCap
                /\ loopN' = loopN + 1
                /\ UNCHANGED <<ops, existingFiles, pc>>
    /\ UNCHANGED <<scanVars, openFiles, attrVars, copyVars, eqVars, inputVars,
                   err, dedupeVars, bestCreatedAt, reserved, destDecisions,
                   probed, resolvedBefore, finalDecisions>>

\* One iteration of the loop "for i := 1; ; i++" of resolveCollision and
\* unknownDestination; each value of the iteration is computed once.
SuffixStep ==
    /\ pc = "suffix"
    /\ \E src \in {sources[Len(ops) + 1]} :
       \E filename \in {Base(src)} :
       \E ext \in {Ext(filename)} :
       \E nameWithoutExt \in {TrimSuffix(filename, ext)} :
       \E candidate \in {Join(PlanDirOf(src),
                             Suffixed(nameWithoutExt, loopN, ext))} :
           IF candidate \notin existingFiles
           THEN /\ ops' = Append(ops, Operation(src, candidate))
                /\ existingFiles' = existingFiles \cup {candidate}
                /\ pc' = "planning"
                /\ loopN' = 0
           ELSE /\ loopN < LoopCap
                /\ loopN' = loopN + 1
                /\ UNCHANGED <<ops, existingFiles, pc>>
    /\ UNCHANGED <<scanVars, openFiles, attrVars, copyVars, eqVars, inputVars,
                   err, dedupeVars, bestCreatedAt, reserved, destDecisions,
                   probed, resolvedBefore, finalDecisions>>

\* PlanDestinations returns its operations.
PlanReturn ==
    /\ pc \in {"idle", "planning"}
    /\ LET cur == IF pc = "idle" THEN <<>> ELSE ops
       IN  /\ Len(cur) = Len(sources)
           /\ ops' = cur
           /\ existingFiles' = IF pc = "idle" THEN {} ELSE existingFiles
    /\ pc' = "planned"
    /\ UNCHANGED <<scanVars, openFiles, attrVars, copyVars, eqVars, inputVars,
                   err, dedupeVars, bestCreatedAt, resolveVars,
                   finalDecisions>>

\* ResolveAgainstDestination takes the next operation: the loop
\* "for n := 0; ; n++" begins.
ProbeStart ==
    /\ pc \in {"planned", "resolving"}
    /\ LET cur == IF pc = "planned" THEN <<>> ELSE destDecisions
       IN  /\ Len(cur) < Len(ops)
           /\ destDecisions' = cur
           /\ reserved' = IF pc = "planned" THEN {} ELSE reserved
           /\ probed' = Append(IF pc = "planned" THEN <<>> ELSE probed,
                               [stats |-> <<>>, compares |-> <<>>])
    /\ pc' = "probing"
    /\ loopN' = 0
    /\ UNCHANGED <<scanVars, openFiles, attrVars, copyVars, eqVars, inputVars,
                   err, dedupeVars, planVars, resolvedBefore, finalDecisions>>

\* The log with one more stat, and one more comparison if compared, in the
\* entry of the decision in progress.
Logged(log, candidate, compared) ==
    [log EXCEPT ![Len(log)] =
        [stats    |-> Append(@.stats, candidate),
         compares |-> IF compared THEN Append(@.compares, candidate)
                      ELSE @.compares]]

\* One iteration of the loop "for n := 0; ; n++" of
\* ResolveAgainstDestination; each value of the iteration is computed once,
\* the comparison only where the loop makes it.
ProbeStep ==
    /\ pc = "probing"
    /\ \E op \in {ops[Len(destDecisions) + 1]} :
       \E planned \in {op.DestinationPath} :
       \E filename \in {Base(op.SourcePath)} :
       \E ext \in {Ext(filename)} :
       \E base \in {TrimSuffix(filename, ext)} :
       \E candidate \in {IF loopN = 0 THEN Join(Dir(planned), filename)
                          ELSE Join(Dir(planned),
                                    Suffixed(base, loopN, ext))} :
       \E st \in {Stat(candidate)} :
       \E cmp \in {IF candidate \in reserved \/ st.err # "nil"
                    THEN [identical |-> FALSE, err |-> "nil"]
                    ELSE filesAreIdentical(op.SourcePath, candidate)} :
       \E decision \in {Decision(op.SourcePath, planned, candidate,
                                  IF st.err # "nil"
                                  THEN IF loopN = 0 THEN ActionCopy
                                       ELSE ActionCopyRenamed
                                  ELSE ActionSkippedIdentical, <<>>)} :
           IF candidate \in reserved
           THEN /\ loopN < LoopCap
                /\ loopN' = loopN + 1
                /\ UNCHANGED <<destDecisions, reserved, probed, pc, err>>
           ELSE IF st.err = "not exist"
           THEN /\ destDecisions' = Append(destDecisions, decision)
                /\ reserved' = reserved \cup {candidate}
                /\ probed' = Logged(probed, candidate, FALSE)
                /\ pc' = "resolving"
                /\ loopN' = 0
                /\ UNCHANGED err
           ELSE IF st.err # "nil"
           THEN /\ destDecisions' = <<>>
                /\ probed' = Logged(probed, candidate, FALSE)
                /\ pc' = "resolved"
                /\ err' = "stat"
                /\ UNCHANGED <<reserved, loopN>>
           ELSE IF cmp.err # "nil"
           THEN /\ destDecisions' = <<>>
                /\ probed' = Logged(probed, candidate, TRUE)
                /\ pc' = "resolved"
                /\ err' = cmp.err
                /\ UNCHANGED <<reserved, loopN>>
           ELSE IF cmp.identical
           THEN /\ destDecisions' = Append(destDecisions, decision)
                /\ probed' = Logged(probed, candidate, TRUE)
                /\ pc' = "resolving"
                /\ loopN' = 0
                /\ UNCHANGED <<reserved, err>>
           ELSE /\ loopN < LoopCap
                /\ loopN' = loopN + 1
                /\ probed' = Logged(probed, candidate, TRUE)
                /\ UNCHANGED <<destDecisions, reserved, pc, err>>
    /\ UNCHANGED <<scanVars, openFiles, attrVars, copyVars, eqVars, inputVars,
                   dedupeVars, planVars, resolvedBefore, finalDecisions>>

----------------------------------------------------------------------------
(* The copy executor.                                                      *)

\* The directories above the path p, up to the root of a relative path.
RECURSIVE Parents(_)
Parents(p) ==
    IF Dir(p) \in {<<".">>, <<"/">>} THEN {}
    ELSE {Dir(p)} \cup Parents(Dir(p))

\* The directories that hold the files of the filesystem f.
DirsOf(f) == UNION {Parents(p) : p \in DOMAIN f}

\* A copy that creates the destination and writes none of the bytes.
copyFileCreatingOnly(f, src, dst, allowOverwrite) ==
    LET with(c) == [q \in DOMAIN f \cup {dst} |-> IF q = dst THEN c ELSE f[q]]
    IN  IF src \notin DOMAIN f \/ Fails(src, "open")
        THEN [err |-> "open source", fs |-> f]
        ELSE IF Fails(src, "stat") THEN [err |-> "stat source", fs |-> f]
        ELSE IF dst \in DOMAIN f /\ ~allowOverwrite
        THEN [err |-> "ErrDestinationExists", fs |-> f]
        ELSE IF Fails(dst, "create")
        THEN [err |-> "create destination", fs |-> f]
        ELSE IF Fails(dst, "sync") THEN [err |-> "sync", fs |-> with(<<>>)]
        ELSE [err |-> "nil", fs |-> with(<<>>)]

\* A copy that opens the destination for writing whether it exists or not.
copyFileTruncating(f, src, dst, allowOverwrite) ==
    LET content == IF src = dst THEN <<>> ELSE f[src]
        struck == Struck(src, "read", 0, Len(content))
                      \cup Struck(dst, "write", 0, Len(content))
        with(c) == [q \in DOMAIN f \cup {dst} |-> IF q = dst THEN c ELSE f[q]]
    IN  IF src \notin DOMAIN f \/ Fails(src, "open")
        THEN [err |-> "open source", fs |-> f]
        ELSE IF Fails(src, "stat") THEN [err |-> "stat source", fs |-> f]
        ELSE IF Fails(dst, "create")
        THEN [err |-> "create destination", fs |-> f]
        ELSE IF struck # {}
        THEN [err |-> "copy content",
              fs  |-> with(SubSeq(content, 1, Least(struck)))]
        ELSE IF Fails(dst, "sync") THEN [err |-> "sync", fs |-> with(content)]
        ELSE [err |-> "nil", fs |-> with(content)]

\* copyFile(src, dst, allowOverwrite) on the filesystem f: the error and the
\* filesystem after the call.  The destination is created with O_EXCL, or
\* truncated when overwriting is allowed; a copy that fails half way leaves
\* the bytes written so far, and the file is removed if it was created here.
copyFile(f, src, dst, allowOverwrite) ==
    LET content == IF src = dst THEN <<>> ELSE f[src]
        struck == Struck(src, "read", 0, Len(content))
                      \cup Struck(dst, "write", 0, Len(content))
        with(c) == [q \in DOMAIN f \cup {dst} |-> IF q = dst THEN c ELSE f[q]]
    IN  IF src \notin DOMAIN f \/ Fails(src, "open")
        THEN [err |-> "open source", fs |-> f]
        ELSE IF Fails(src, "stat") THEN [err |-> "stat source", fs |-> f]
        ELSE IF dst \in DOMAIN f /\ ~allowOverwrite
        THEN [err |-> "ErrDestinationExists", fs |-> f]
        ELSE IF Fails(dst, "create")
        THEN [err |-> "create destination", fs |-> f]
        ELSE IF struck # {}
        THEN [err |-> "copy content",
              fs  |-> IF allowOverwrite
                      THEN with(SubSeq(content, 1, Least(struck)))
                      ELSE f]
        ELSE IF Fails(dst, "sync") THEN [err |-> "sync", fs |-> with(content)]
        ELSE [err |-> "nil", fs |-> with(content)]

\* os.MkdirAll(destDir) on the filesystem f with the directories d: it fails
\* on an injected fault or when a regular file is in the way.
MkdirAll(f, d, destDir) ==
    IF destDir \in d THEN [err |-> "nil", dirs |-> d]
    ELSE IF Fails(destDir, "mkdir")
            \/ \E a \in {destDir} \cup Parents(destDir) : a \in DOMAIN f
    THEN [err |-> "create directory", dirs |-> d]
    ELSE [err |-> "nil", dirs |-> d \cup {destDir} \cup Parents(destDir)]

\* A loop that gives up at the first operation that fails.
RECURSIVE ExecuteUntilFailure(_, _, _, _, _, _)
ExecuteUntilFailure(f, d, operations, allowOverwrite, i, res) ==
    IF i > Len(operations) THEN [results |-> res, fs |-> f, dirs |-> d]
    ELSE LET op == operations[i]
             m == MkdirAll(f, d, Dir(op.DestinationPath))
             c == copyFile(f, op.SourcePath, op.DestinationPath, allowOverwrite)
         IN  IF m.err # "nil" \/ c.err # "nil"
             THEN [results |-> Append(res, [Operation |-> op,
                                            Success |-> FALSE,
                                            Error |-> "failed"]),
                   fs |-> f, dirs |-> d]
             ELSE ExecuteUntilFailure(c.fs, m.dirs, operations, allowOverwrite,
                      i + 1,
                      Append(res, [Operation |-> op, Success |-> TRUE,
                                   Error |-> "nil"]))

\* The loop of copy.Execute over the operations from index i on: one Result
\* per operation, and the files and directories after the call.
RECURSIVE Execute(_, _, _, _, _, _)
Execute(f, d, operations, allowOverwrite, i, res) ==
    IF i > Len(operations) THEN [results |-> res, fs |-> f, dirs |-> d]
    ELSE LET op == operations[i]
             m == MkdirAll(f, d, Dir(op.DestinationPath))
             c == copyFile(f, op.SourcePath, op.DestinationPath, allowOverwrite)
         IN  IF m.err # "nil"
             THEN Execute(f, d, operations, allowOverwrite, i + 1,
                      Append(res, [Operation |-> op, Success |-> FALSE,
                                   Error |-> m.err]))
             ELSE Execute(c.fs, m.dirs, operations, allowOverwrite, i + 1,
                      Append(res, [Operation |-> op,
                                   Success |-> c.err = "nil",
                                   Error |-> c.err]))

\* A direct call of headerHash(path, size) with the size of the file.
CallHeaderHash(path) ==
    /\ callArgs' = <<"headerHash", path>>
    /\ callResult' = headerHash(path, IF Exists(path) THEN Len(fs[path]) ELSE 0)
    /\ openFiles' = After(openFiles, headerHashHandles(path))
    /\ UNCHANGED <<cmpArgs, cmpResult, inputVars, pc, err, dedupeVars,
                   planVars, resolveVars, finalDecisions, copyVars, attrVars,
                   scanVars>>

\* A direct call of copyFile(src, dst, allowOverwrite).
CallCopyFile(src, dst, allowOverwrite) ==
    /\ callArgs' = <<"copyFile", src, dst, allowOverwrite>>
    /\ LET r == copyFile(fs, src, dst, allowOverwrite)
       IN  /\ callResult' = r.err
           /\ fs' = r.fs
    /\ openFiles' = After(openFiles,
                          copyFileHandles(fs, src, dst, allowOverwrite))
    /\ UNCHANGED <<cmpArgs, cmpResult, dirs, faults, sources, details, sizes,
                   pc, err, dedupeVars, planVars, resolveVars, finalDecisions,
                   copyVars, attrVars, scanVars>>

----------------------------------------------------------------------------
(* The organize command.                                                   *)

IsSourcePath(p) == Len(p) > 1 /\ p[1] = "s" /\ p[2] = "/"

\* Stages 1 and 2 of organize: the scan records in order, their sizes, and
\* the best timestamp of every source that has one.  The scan fails on a
\* source it cannot stat, the attribution on a source it cannot open, and
\* organize returns the error.
OrganizeScan ==
    /\ pc = "start"
    /\ LET found == {p \in DOMAIN fs : IsSourcePath(p)}
       IN  IF \E p \in found : Fails(p, "stat")
           THEN /\ pc' = "failed"
                /\ err' = "scan"
                /\ UNCHANGED <<sources, sizes, bestCreatedAt>>
           ELSE IF \E p \in found : Fails(p, "open")
           THEN /\ pc' = "failed"
                /\ err' = "open"
                /\ UNCHANGED <<sources, sizes, bestCreatedAt>>
           ELSE /\ sources' = SortedSeq(found)
                /\ sizes' = [p \in found |-> Len(fs[p])]
                /\ bestCreatedAt' =
                       [p \in {q \in DOMAIN details : ~IsZero(details[q])} |->
                           details[p]]
                /\ pc' = "idle"
                /\ UNCHANGED err
    /\ UNCHANGED <<scanVars, openFiles, attrVars, copyVars, eqVars, fs, dirs, faults, details, dedupeVars,
                   existingFiles, ops, resolveVars, finalDecisions>>

\* organize returns the error of DedupeSources or ResolveAgainstDestination.
OrganizeFail ==
    /\ pc \in {"done", "resolved"}
    /\ err # "nil"
    /\ pc' = "failed"
    /\ UNCHANGED <<scanVars, openFiles, attrVars, copyVars, eqVars, inputVars, err, dedupeVars, planVars,
                   resolveVars, finalDecisions>>

\* A planning stage that creates the directory of every planned destination.
OrganizePlanMakingDirs ==
    /\ pc = "done"
    /\ err = "nil"
    /\ LET r == PlanDestinations(DestRoot, kept, bestCreatedAt, 1, {}, <<>>)
       IN  /\ ops' = r.ops
           /\ existingFiles' = r.existing
           /\ dirs' = dirs \cup UNION {Parents(r.ops[i].DestinationPath) :
                                          i \in 1..Len(r.ops)}
    /\ pc' = "planned"
    /\ UNCHANGED <<scanVars, openFiles, attrVars, copyVars, eqVars, fs, faults, sources, details, sizes, err,
                   dedupeVars, bestCreatedAt, resolveVars, finalDecisions>>

\* Stages 3 and 4 of organize: plan the kept sources.
OrganizePlan ==
    /\ pc = "done"
    /\ err = "nil"
    /\ LET r == PlanDestinations(DestRoot, kept, bestCreatedAt, 1, {}, <<>>)
       IN  /\ ops' = r.ops
           /\ existingFiles' = r.existing
    /\ pc' = "planned"
    /\ UNCHANGED <<scanVars, openFiles, attrVars, copyVars, eqVars, inputVars, err, dedupeVars, bestCreatedAt,
                   resolveVars, finalDecisions>>

\* decisionsBySource after the dedupe decisions and the reconciliation
\* decisions were entered: a reconciliation decision does not replace a
\* skipped_duplicate_source decision.
decisionsBySource(dedupeDecisions, destDecs) ==
    LET fromDedupe == [p \in {dedupeDecisions[i].SourcePath :
                                 i \in 1..Len(dedupeDecisions)} |->
                          dedupeDecisions[
                              Max({i \in 1..Len(dedupeDecisions) :
                                      dedupeDecisions[i].SourcePath = p})]]
        entered == {i \in 1..Len(destDecs) :
                       ~(/\ destDecs[i].SourcePath \in DOMAIN fromDedupe
                         /\ fromDedupe[destDecs[i].SourcePath].Action
                               = ActionSkippedDuplicateSrc)}
        fromDest == [p \in {destDecs[i].SourcePath : i \in entered} |->
                        destDecs[Max({i \in entered : destDecs[i].SourcePath = p})]]
    IN  Override(fromDedupe, fromDest)

\* A final list that holds the decisions of the kept sources only.
RECURSIVE keptDecisionList(_, _)
keptDecisionList(ordered, bySource) ==
    IF ordered = <<>> THEN <<>>
    ELSE IF ordered[1] \in DOMAIN bySource
            /\ bySource[ordered[1]].Action # ActionSkippedDuplicateSrc
    THEN <<bySource[ordered[1]]>> \o keptDecisionList(Tail(ordered), bySource)
    ELSE keptDecisionList(Tail(ordered), bySource)

\* The final list: the decision of every source, in scan order.
RECURSIVE decisionList(_, _)
decisionList(ordered, bySource) ==
    IF ordered = <<>> THEN <<>>
    ELSE IF ordered[1] \in DOMAIN bySource
    THEN <<bySource[ordered[1]]>> \o decisionList(Tail(ordered), bySource)
    ELSE decisionList(Tail(ordered), bySource)

\* Organize merges the decisions of the two stages into the final list.
OrganizeMerge ==
    /\ pc = "resolved"
    /\ err = "nil"
    /\ finalDecisions' =
           decisionList(sources, decisionsBySource(decisions, destDecisions))
    /\ pc' = "decided"
    /\ UNCHANGED <<scanVars, openFiles, attrVars, copyVars, eqVars, inputVars, err, dedupeVars, planVars,
                   resolveVars>>

\* A list of copies that go to the planned paths.
RECURSIVE opsToCopyAsPlanned(_)
opsToCopyAsPlanned(ds) ==
    IF ds = <<>> THEN <<>>
    ELSE IF ds[1].Action \in {ActionCopy, ActionCopyRenamed}
    THEN <<Operation(ds[1].SourcePath, ds[1].DestinationPath)>>
             \o opsToCopyAsPlanned(Tail(ds))
    ELSE opsToCopyAsPlanned(Tail(ds))

\* The operations organize hands to copy.Execute.
RECURSIVE opsToCopy(_)
opsToCopy(ds) ==
    IF ds = <<>> THEN <<>>
    ELSE IF ds[1].Action \in {ActionCopy, ActionCopyRenamed}
    THEN <<Operation(ds[1].SourcePath,
                     IF ds[1].FinalDestinationPath = <<>>
                     THEN ds[1].DestinationPath
                     ELSE ds[1].FinalDestinationPath)>> \o opsToCopy(Tail(ds))
    ELSE opsToCopy(Tail(ds))

\* An update that expects a copy result for every decision.
afterCopyEveryDecision(d, res) ==
    LET mine == {i \in 1..Len(res) :
                    res[i].Operation.SourcePath = d.SourcePath}
    IN  IF mine = {}
        THEN [d EXCEPT !.Action = ActionFailed, !.Error = "missing copy result"]
        ELSE IF res[Max(mine)].Success
        THEN [d EXCEPT !.Action = IF d.Action = ActionCopyRenamed
                                  THEN ActionCopiedRenamed ELSE ActionCopied]
        ELSE [d EXCEPT !.Action = ActionFailed, !.Error = res[Max(mine)].Error]

\* The decision d after the copies: copied, copied_renamed or failed.
afterCopy(d, res) ==
    LET mine == {i \in 1..Len(res) :
                    res[i].Operation.SourcePath = d.SourcePath}
    IN  IF d.Action \notin {ActionCopy, ActionCopyRenamed} THEN d
        ELSE IF mine = {}
        THEN [d EXCEPT !.Action = ActionFailed, !.Error = "missing copy result"]
        ELSE IF res[Max(mine)].Success
        THEN [d EXCEPT !.Action = IF d.Action = ActionCopyRenamed
                                  THEN ActionCopiedRenamed ELSE ActionCopied]
        ELSE [d EXCEPT !.Action = ActionFailed, !.Error = res[Max(mine)].Error]

\* organize --execute: copy, then record the outcome on each decision.
OrganizeExecute ==
    /\ pc = "decided"
    /\ execute
    /\ LET r == Execute(fs, dirs, opsToCopy(finalDecisions), FALSE, 1, <<>>)
       IN  /\ fs' = r.fs
           /\ dirs' = r.dirs
           /\ results' = r.results
           /\ finalDecisions' = [i \in 1..Len(finalDecisions) |->
                                    afterCopy(finalDecisions[i], r.results)]
    /\ pc' = "finished"
    /\ UNCHANGED <<scanVars, openFiles, attrVars, eqVars, faults, execute, overwrite, sources, details,
                   sizes, err, dedupeVars, planVars, resolveVars>>

\* organize without --execute: the decisions are printed, nothing is written.
OrganizeDryRun ==
    /\ pc = "decided"
    /\ ~execute
    /\ pc' = "finished"
    /\ UNCHANGED <<scanVars, openFiles, attrVars, copyVars, eqVars, inputVars, err, dedupeVars, planVars,
                   resolveVars,
                   finalDecisions>>

\* The command has ended after copies that all succeeded, and is started
\* again on the same source tree and the destination as it is now: a new
\* process, in which every variable of the pipeline starts afresh.
OrganizeAgain ==
    /\ pc = "finished"
    /\ execute
    /\ \A i \in 1..Len(results) : results[i].Success
    /\ Len(resolvedBefore) < MaxRuns - 1
    /\ resolvedBefore' = Append(resolvedBefore,
                            [decisions |-> finalDecisions, fs |-> fs,
                             dirs |-> dirs])
    /\ pc' = "start"
    /\ sources' = <<>>
    /\ sizes' = <<>>
    /\ bySize' = <<>>
    /\ sizesLeft' = {}
    /\ headerGroups' = <<>>
    /\ groupsLeft' = {}
    /\ keptSet' = {}
    /\ skipSet' = {}
    /\ duplicateOf' = <<>>
    /\ kept' = <<>>
    /\ decisions' = <<>>
    /\ bestCreatedAt' = <<>>
    /\ existingFiles' = {}
    /\ ops' = <<>>
    /\ reserved' = {}
    /\ destDecisions' = <<>>
    /\ probed' = <<>>
    /\ finalDecisions' = <<>>
    /\ results' = <<>>
    /\ UNCHANGED <<scanVars, openFiles, attrVars, eqVars, fs, dirs, faults,
                   details, err, firstRun, loopN, execute, overwrite>>

\* Stage 2 of organize for one source: bestCreatedAt gets an entry only for
\* a Best.CreatedAt that is not the zero time.  An entry is a sequence of
\* one timestamp, no entry the empty sequence.
bestCreatedAtEntry(detailed) ==
    IF ~IsZeroInstant(detailed.Best.CreatedAt)
    THEN <<detailed.Best.CreatedAt>> ELSE <<>>

\* The test of PlanDestinations, "ok && !createdAt.IsZero()", failed: the
\* source goes to the unknown bucket.
GoesToUnknown(entry) == entry = <<>> \/ IsZeroInstant(entry[1])

\* The variables of the calls that are not in progress.
IdleDedupe ==
    /\ pc = "idle"
    /\ bySize = <<>>
    /\ sizesLeft = {}
    /\ headerGroups = <<>>
    /\ groupsLeft = {}
    /\ keptSet = {}
    /\ skipSet = {}
    /\ duplicateOf = <<>>
    /\ kept = <<>>
    /\ decisions = <<>>
    /\ err = "nil"
    /\ firstRun = <<>>

IdlePlan ==
    /\ bestCreatedAt = <<>>
    /\ existingFiles = {}
    /\ ops = <<>>

IdleResolve ==
    /\ reserved = {}
    /\ destDecisions = <<>>
    /\ probed = <<>>
    /\ resolvedBefore = <<>>
    /\ loopN = 0
    /\ finalDecisions = <<>>

----------------------------------------------------------------------------
(* The duplicate resolver on batches of three sources: every order of the  *)
(* batch, contents that agree entirely, only in size and header window, or *)
(* not at all, known and unknown timestamps, and a size map that is right  *)
(* or wrong for one source.                                                *)

SrcA == <<"s", "/", "a", ".", "j">>
SrcB == <<"s", "/", "b", ".", "j">>
SrcDA == <<"s", "/", "d", "/", "a", ".", "j">>
DedupePaths == {SrcA, SrcB, SrcDA}
Zeros(n) == [i \in 1..n |-> 0]

\* Two files that differ only after the header window, one of their size
\* that differs inside the window, and one that fits in the window.
DedupeContents ==
    {Zeros(headerBytes + 1), Append(Zeros(headerBytes), 1),
     <<1>> \o Zeros(headerBytes), Zeros(headerBytes)}
DedupeTimes == {ZeroTime, T2019, T2020}

Orderings(S) ==
    {q \in [1..Cardinality(S) -> S] : \A i, j \in 1..Cardinality(S) : q[i] = q[j] => i = j}

RealSizes == [p \in DOMAIN fs |-> Len(fs[p])]

\* The size maps the resolver is tried on: the real sizes, and the real
\* sizes with the size of the first source off by one (a file that changed
\* after the scan).
SizeMaps == {RealSizes, [RealSizes EXCEPT ![sources[1]] = @ + 1]}

InitDedupe ==
    /\ fs \in [DedupePaths -> DedupeContents]
    /\ dirs = DirsOf(fs)
    /\ faults = {}
    /\ execute = FALSE
    /\ overwrite = FALSE
    /\ results = <<>>
    /\ IdleAttr
    /\ IdleScan
    /\ openFiles = {}
    /\ sources \in Orderings(DedupePaths)
    /\ details \in [DedupePaths -> DedupeTimes]
    /\ sizes \in SizeMaps
    /\ cmpArgs = <<>>
    /\ cmpResult = [identical |-> FALSE, err |-> "nil"]
    /\ callArgs = <<>>
    /\ callResult = <<>>
    /\ IdleDedupe
    /\ IdlePlan
    /\ IdleResolve

NextDedupe ==
    \/ DedupeStart
    \/ \E size \in sizesLeft : DedupeSizeGroup(size)
    \/ \E h \in groupsLeft : DedupeHeaderGroup(h)
    \/ DedupeFinish
    \/ DedupeReturn

SpecDedupe == InitDedupe /\ [][NextDedupe]_vars

Succeeded == pc = "done" /\ err = "nil"

KeptSources == SeqToSet(kept)

\* The sources DedupeSources marked as duplicates, with their decisions.
SkipDecisions ==
    {decisions[i] : i \in {k \in 1..Len(decisions) :
                              decisions[k].Action = ActionSkippedDuplicateSrc}}

\* The first min(size, headerBytes) bytes of a file.
HeaderWindow(p) == SubSeq(fs[p], 1, Min(Len(fs[p]), headerBytes))

\* Two sources that agree in size and header window and differ after it.
HeaderTwins(p, q) ==
    /\ p # q
    /\ Len(fs[p]) = Len(fs[q])
    /\ HeaderWindow(p) = HeaderWindow(q)
    /\ fs[p] # fs[q]

\* No other source of the batch has the content of p.
ContentIsUnique(p) == \A r \in SeqToSet(sources) \ {p} : fs[r] # fs[p]

DuplicateOfIsCanonical ==
    Succeeded =>
        \A d \in SkipDecisions :
            /\ d.DuplicateOf \in KeptSources
            /\ \A i \in 1..Len(decisions) :
                  decisions[i].SourcePath = d.DuplicateOf
                      => decisions[i].Action = ActionCopy
            /\ \E i \in 1..Len(decisions) :
                  decisions[i].SourcePath = d.DuplicateOf

\* A successful call in which two sources duplicate the same canonical file
\* and the canonical file is not the first of the three in the batch.
DuplicateOfIsCanonicalWitness ==
    /\ Succeeded
    /\ Cardinality(SkipDecisions) = 2
    /\ \A d \in SkipDecisions : d.DuplicateOf = sources[3]

\* The sources with the content of p: its duplicate cluster.
ClusterOf(p) == {m \in SeqToSet(sources) : fs[m] = fs[p]}

Known(S) == {m \in S : ~IsZero(details[m])}

\* C7: the canonical member of a cluster has the earliest known timestamp
\* of the cluster; if no member has a known timestamp it is the smallest
\* path; every other member is skipped with DuplicateOf naming it.
CanonicalIsOldest ==
    (Succeeded /\ sizes = RealSizes) =>
        \A c \in KeptSources :
            /\ Known(ClusterOf(c)) # {} =>
                  /\ c \in Known(ClusterOf(c))
                  /\ \A m \in Known(ClusterOf(c)) : ~Before(details[m], details[c])
            /\ Known(ClusterOf(c)) = {} =>
                  \A m \in ClusterOf(c) : ~StrLess(m, c)
            /\ \A m \in ClusterOf(c) \ {c} :
                  \E d \in SkipDecisions :
                      d.SourcePath = m /\ d.DuplicateOf = c

\* A cluster of three in which the canonical member is the last of the
\* batch and the largest path, one member is newer and one is unknown.
CanonicalIsOldestWitness ==
    /\ Succeeded
    /\ sizes = RealSizes
    /\ kept = <<sources[3]>>
    /\ sources[3] = SrcDA
    /\ \E m \in ClusterOf(sources[3]) : IsZero(details[m])
    /\ \E m \in ClusterOf(sources[3]) : Before(details[sources[3]], details[m])

\* C8: of two byte-identical sources with equal known timestamps the one
\* with the larger path is never kept, and when no third source has their
\* content the one with the smaller path is kept and named as DuplicateOf;
\* this holds for every order of the batch and for every call.
TieBreakIsLexicographic ==
    (Succeeded /\ sizes = RealSizes) =>
        \A p, q \in SeqToSet(sources) :
            (/\ fs[p] = fs[q]
             /\ ~IsZero(details[p])
             /\ TimeEqual(details[p], details[q])
             /\ StrLess(p, q))
            => /\ q \notin KeptSources
               /\ ClusterOf(p) = {p, q}
                     => /\ p \in KeptSources
                        /\ \E d \in SkipDecisions :
                              d.SourcePath = q /\ d.DuplicateOf = p

\* Two identical sources with equal known timestamps, the smaller path
\* coming later in the batch, in a repeated call.
TieBreakIsLexicographicWitness ==
    /\ Succeeded
    /\ sizes = RealSizes
    /\ firstRun # <<>>
    /\ \E i, j \in 1..Len(sources) :
          /\ i < j
          /\ StrLess(sources[j], sources[i])
          /\ fs[sources[i]] = fs[sources[j]]
          /\ ~IsZero(details[sources[i]])
          /\ details[sources[i]] = details[sources[j]]
          /\ sources[j] \in KeptSources

\* C9: every call of DedupeSources on the same inputs returns the same
\* kept list, decisions and error as the first call, whatever the order in
\* which the by-size and by-header maps were visited in either call.
DedupeIsIdempotent ==
    (pc = "done" /\ firstRun # <<>>) =>
        /\ kept = firstRun[1].kept
        /\ decisions = firstRun[1].decisions
        /\ err = firstRun[1].err

\* A second successful call over two size groups, one of them with two
\* header groups, that skipped a duplicate.
DedupeIsIdempotentWitness ==
    /\ Succeeded
    /\ firstRun # <<>>
    /\ Cardinality(DOMAIN bySize) = 2
    /\ Cardinality(DOMAIN headerGroups) = 2
    /\ Len(kept) = 3

----------------------------------------------------------------------------
(* The planner on batches of up to MaxSources sources that share file      *)
(* names across source directories, with timestamps in two days, the zero  *)
(* timestamp, or no entry in the created-at map.                           *)

SrcA1 == <<"s", "/", "a", "_", "1", ".", "j">>
SrcDA1 == <<"s", "/", "d", "/", "a", "_", "1", ".", "j">>
SrcBA == <<"s", "/", "b", "/", "a", ".", "j">>
PlanPaths == {SrcA, SrcDA, SrcBA, SrcA1, SrcDA1}
PlanTimes == {ZeroTime, T2019, T2020}

\* The sequences of n distinct elements of S.
InjectiveSeqs(S, n) ==
    {q \in [1..n -> S] : \A i, j \in 1..n : q[i] = q[j] => i = j}

\* The functions from a subset of S to T.
PartialFunctions(S, T) == UNION {[D -> T] : D \in SUBSET S}

InitPlan ==
    /\ sources \in UNION {InjectiveSeqs(PlanPaths, n) : n \in 1..MaxSources}
    /\ bestCreatedAt \in PartialFunctions(SeqToSet(sources), PlanTimes)
    /\ fs = <<>>
    /\ dirs = DirsOf(fs)
    /\ faults = {}
    /\ execute = FALSE
    /\ overwrite = FALSE
    /\ results = <<>>
    /\ IdleAttr
    /\ IdleScan
    /\ openFiles = {}
    /\ details = <<>>
    /\ sizes = <<>>
    /\ cmpArgs = <<>>
    /\ cmpResult = [identical |-> FALSE, err |-> "nil"]
    /\ callArgs = <<>>
    /\ callResult = <<>>
    /\ IdleDedupe
    /\ existingFiles = {}
    /\ ops = <<>>
    /\ IdleResolve

NextPlan ==
    \/ CallPlanDestinations
    \/ CallPlan
    \/ CallDestination

SpecPlan == InitPlan /\ [][NextPlan]_vars

\* The n-th candidate for a file name in a directory: name.ext for n = 0,
\* name_n.ext otherwise.
NthName(dir, filename, n) ==
    IF n = 0 THEN Join(dir, filename)
    ELSE Join(dir, TrimSuffix(filename, Ext(filename)) \o <<"_">> \o Itoa(n)
                   \o Ext(filename))

\* The operations of the sources that have the file name of operation i and
\* are destined for its directory.
SameNamed(i) ==
    {j \in 1..Len(ops) :
        /\ Base(ops[j].SourcePath) = Base(ops[i].SourcePath)
        /\ Dir(ops[j].DestinationPath) = Dir(ops[i].DestinationPath)}

\* The number of same-named operations before operation i.
RankOf(i) == Cardinality({j \in SameNamed(i) : j < i})

\* The n for which operation i got the n-th candidate of its name, if any.
SuffixesOf(i) ==
    {n \in 0..Len(ops) :
        ops[i].DestinationPath =
            NthName(Dir(ops[i].DestinationPath), Base(ops[i].SourcePath), n)}

\* Some operation outside the group of i took one of the group's first
\* Cardinality(SameNamed(i)) candidates.
SlotTaken(i) ==
    \E j \in (1..Len(ops)) \ SameNamed(i) :
        \E n \in 0..(Cardinality(SameNamed(i)) - 1) :
            ops[j].DestinationPath =
                NthName(Dir(ops[i].DestinationPath), Base(ops[i].SourcePath), n)

\* C10 as stated: the N same-named files destined for one directory get
\* exactly name.ext, name_1.ext, ..., name_(N-1).ext, in source order.
SuffixesAreGapless ==
    pc = "planned" =>
        \A i \in 1..Len(ops) :
            ops[i].DestinationPath =
                NthName(Dir(ops[i].DestinationPath), Base(ops[i].SourcePath),
                        RankOf(i))

\* C10 (amended): the same-named files destined for one directory get
\* name.ext or name_n.ext with n increasing in source order, and exactly
\* name.ext, name_1.ext, ..., name_(N-1).ext when no differently named source
\* of the call was given one of these paths.
SuffixesAreMonotonic ==
    pc = "planned" =>
        \A i \in 1..Len(ops) :
            /\ SuffixesOf(i) # {}
            /\ \A j \in SameNamed(i) :
                  j < i => \A m \in SuffixesOf(j), n \in SuffixesOf(i) : m < n
            /\ ~SlotTaken(i) => SuffixesOf(i) = {RankOf(i)}

\* Three same-named sources planned into one directory, the third of them
\* with the suffix _2.
SuffixesAreMonotonicWitness ==
    /\ pc = "planned"
    /\ Len(ops) = 3
    /\ SameNamed(3) = {1, 2, 3}
    /\ SuffixesOf(3) = {2}

\* The decimal digits of n, zero-padded to two and to four places.
TwoDigits(n) == <<DigitChar((n \div 10) % 10), DigitChar(n % 10)>>
FourDigits(n) == TwoDigits(n \div 100) \o TwoDigits(n % 100)

\* The directory a source belongs in: <root>/YYYY/MM/DD of its best
\* timestamp, <root>/unknown when it has none or the zero timestamp.
DirectoryFor(src) ==
    IF src \in DOMAIN bestCreatedAt /\ bestCreatedAt[src] # ZeroTime
    THEN DestRoot \o <<"/">> \o FourDigits(bestCreatedAt[src][1])
                  \o <<"/">> \o TwoDigits(bestCreatedAt[src][2])
                  \o <<"/">> \o TwoDigits(bestCreatedAt[src][3])
    ELSE DestRoot \o <<"/">> \o UnknownDir

\* The operations are one per source, in source order, each in the directory
\* of its source, no two with one destination path.
OnePlacePerSource ==
    /\ Len(ops) = Len(sources)
    /\ \A i \in 1..Len(ops) :
          /\ ops[i].SourcePath = sources[i]
          /\ Dir(ops[i].DestinationPath) = DirectoryFor(sources[i])
    /\ \A i, j \in 1..Len(ops) :
          ops[i].DestinationPath = ops[j].DestinationPath => i = j

\* C11: PlanDestinations returns one Operation per input source, in input
\* order, in <root>/YYYY/MM/DD of the source's non-zero best timestamp and in
\* <root>/unknown otherwise, and no two Operations of a call share a
\* DestinationPath.
PlanDestinationsPlacesEverySource ==
    [][CallPlanDestinations => OnePlacePerSource']_vars

\* A call planned a dated source, a source with the zero timestamp and a
\* source without timestamp, the last two with one file name.
PlanDestinationsPlacesEverySourceWitness ==
    /\ pc = "planned"
    /\ OnePlacePerSource
    /\ Len(ops) = 3
    /\ \E i, j, k \in 1..3 :
          /\ sources[i] \in DOMAIN bestCreatedAt
          /\ bestCreatedAt[sources[i]] = T2020
          /\ sources[j] \in DOMAIN bestCreatedAt
          /\ bestCreatedAt[sources[j]] = ZeroTime
          /\ sources[k] \notin DOMAIN bestCreatedAt
          /\ Base(sources[j]) = Base(sources[k])
          /\ Dir(ops[j].DestinationPath) = Dir(ops[k].DestinationPath)

\* The sources that have an entry in the created-at map, in source order.
Dated == SelectSeq(sources, LAMBDA p : p \in DOMAIN bestCreatedAt)

\* Operation k of o has the first candidate of its file name, in the
\* directory of its date, that no earlier operation of o was given.
HasFirstUnused(o, k) ==
    LET taken == {o[j].DestinationPath : j \in 1..(k - 1)}
        dir == dateDir(DestRoot, bestCreatedAt[o[k].SourcePath])
        name == Base(o[k].SourcePath)
    IN  /\ o[k].DestinationPath \notin taken
        /\ \E n \in 0..(k - 1) :
              /\ o[k].DestinationPath = NthName(dir, name, n)
              /\ \A m \in 0..(n - 1) : NthName(dir, name, m) \in taken

\* The operations o are those of the dated sources, in source order, each
\* at the first candidate no earlier operation holds, and the reserved paths
\* are their destinations only.
OnlyDatedSourcesArePlanned(o, reservedPaths) ==
    /\ Len(o) = Len(Dated)
    /\ \A k \in 1..Len(o) :
          /\ o[k].SourcePath = Dated[k]
          /\ HasFirstUnused(o, k)
    /\ reservedPaths = {o[k].DestinationPath : k \in 1..Len(o)}

\* C22: plan.Plan returns one Operation for each source that has an entry in
\* the created-at map, in source order, and none for a source without an
\* entry; a skipped source reserves no destination path and does not shift
\* the suffixes of the later sources.
PlanSkipsUndatedSources ==
    [][CallPlan => OnlyDatedSourcesArePlanned(ops', existingFiles')]_vars

\* Plan skipped the second of three sources of one file name; the first and
\* the third, of one day, got the plain name and the suffix _1.
PlanSkipsUndatedSourcesWitness ==
    /\ pc = "planned"
    /\ Len(sources) = 3
    /\ sources[2] \notin DOMAIN bestCreatedAt
    /\ Base(sources[2]) = Base(sources[1])
    /\ Len(ops) = 2
    /\ OnlyDatedSourcesArePlanned(ops, existingFiles)
    /\ ops[1].DestinationPath = NthName(dateDir(DestRoot, T2020), Base(sources[1]), 0)
    /\ ops[2].DestinationPath = NthName(dateDir(DestRoot, T2020), Base(sources[1]), 1)

----------------------------------------------------------------------------
(* The reconciler on the plans of up to three sources, in any order, whose *)
(* names collide with each other and with up to MaxDestFiles files that    *)
(* the destination already holds, identical to a source or not.            *)

ResolvePaths == {SrcA, SrcDA, SrcA1}
ResolveContents == {<<0>>, <<1>>}
ResolveTimes == {ZeroTime, T2020}
DestDir2020 == dateDir(DestRoot, T2020)
DestNames == {<<"a", ".", "j">>, <<"a", "_", "1", ".", "j">>,
              <<"a", "_", "2", ".", "j">>,
              <<"a", "_", "1", "_", "1", ".", "j">>}
DestPaths == {Join(DestDir2020, n) : n \in DestNames}

\* The destination trees: at most MaxDestFiles files.
DestTrees ==
    UNION {[D -> ResolveContents] :
              D \in {E \in SUBSET DestPaths : Cardinality(E) <= MaxDestFiles}}

InitResolve ==
    /\ sources \in UNION {InjectiveSeqs(ResolvePaths, n) : n \in 1..MaxSources}
    /\ bestCreatedAt \in [SeqToSet(sources) -> ResolveTimes]
    /\ \E src \in [ResolvePaths -> ResolveContents], dst \in DestTrees :
          fs = Override(src, dst)
    /\ dirs = DirsOf(fs)
    /\ faults = {}
    /\ execute = FALSE
    /\ overwrite = FALSE
    /\ results = <<>>
    /\ IdleAttr
    /\ IdleScan
    /\ openFiles = {}
    /\ details = <<>>
    /\ sizes = <<>>
    /\ cmpArgs = <<>>
    /\ cmpResult = [identical |-> FALSE, err |-> "nil"]
    /\ callArgs = <<>>
    /\ callResult = <<>>
    /\ IdleDedupe
    /\ existingFiles = {}
    /\ ops = <<>>
    /\ IdleResolve

NextResolve ==
    \/ CallPlanDestinations
    \/ ResolveOp
    \/ ResolveReturn

SpecResolve == InitResolve /\ [][NextResolve]_vars

CopyDecisions(ds) ==
    {i \in 1..Len(ds) : ds[i].Action \in {ActionCopy, ActionCopyRenamed}}

\* C5: no two copy or copy_renamed decisions of one ResolveAgainstDestination
\* call have the same FinalDestinationPath.
FinalPathsAreDistinct ==
    \A i, j \in CopyDecisions(destDecisions) :
        i # j => destDecisions[i].FinalDestinationPath
                    # destDecisions[j].FinalDestinationPath

\* Two same-named sources copied into a directory that already holds a
\* different file of that name: both are renamed.
FinalPathsAreDistinctWitness ==
    /\ pc = "resolved"
    /\ err = "nil"
    /\ \E i, j \in CopyDecisions(destDecisions) :
          /\ i < j
          /\ Base(destDecisions[i].SourcePath) = Base(destDecisions[j].SourcePath)
          /\ destDecisions[i].Action = ActionCopyRenamed
          /\ destDecisions[j].Action = ActionCopyRenamed
          /\ Dir(destDecisions[i].FinalDestinationPath)
                = Dir(destDecisions[j].FinalDestinationPath)

\* The paths reserved by the decisions before decision i.
ReservedBefore(i) ==
    {destDecisions[j].FinalDestinationPath :
        j \in {k \in CopyDecisions(destDecisions) : k < i}}

CandidateOf(i, n) ==
    NthName(Dir(destDecisions[i].DestinationPath),
            Base(destDecisions[i].SourcePath), n)

\* Candidate n is where the probing for decision i must stop: it is not
\* reserved, and absent or byte-identical to the source.
StopsAt(i, n) ==
    /\ CandidateOf(i, n) \notin ReservedBefore(i)
    /\ \/ CandidateOf(i, n) \notin DOMAIN fs
       \/ fs[CandidateOf(i, n)] = fs[destDecisions[i].SourcePath]

ProbeBound == Len(ops) + Cardinality(DOMAIN fs)

\* C6: every decision names the first candidate, in the order name.ext,
\* name_1.ext, name_2.ext, ..., that is not reserved by an earlier decision
\* and is absent (copy for the unsuffixed name, copy_renamed otherwise, and
\* the path is reserved) or byte-identical to the source (skipped_identical,
\* nothing reserved).
FirstFreeOrIdentical ==
    /\ \A i \in 1..Len(destDecisions) :
          \E n \in 0..ProbeBound :
              /\ StopsAt(i, n)
              /\ \A m \in 0..(n - 1) : ~StopsAt(i, m)
              /\ destDecisions[i].FinalDestinationPath = CandidateOf(i, n)
              /\ destDecisions[i].Action =
                    IF CandidateOf(i, n) \in DOMAIN fs THEN ActionSkippedIdentical
                    ELSE IF n = 0 THEN ActionCopy ELSE ActionCopyRenamed
    /\ pc \in {"resolving", "resolved"} /\ err = "nil" =>
          reserved = {destDecisions[i].FinalDestinationPath :
                         i \in CopyDecisions(destDecisions)}

\* A source renamed to name_2.ext because name.ext exists with other content
\* and name_1.ext was reserved earlier in the call, and a source skipped as
\* identical to an existing file.
FirstFreeOrIdenticalWitness ==
    /\ pc = "resolved"
    /\ err = "nil"
    /\ \E i \in 1..Len(destDecisions) :
          /\ destDecisions[i].Action = ActionCopyRenamed
          /\ destDecisions[i].FinalDestinationPath = CandidateOf(i, 2)
          /\ CandidateOf(i, 0) \in DOMAIN fs
          /\ CandidateOf(i, 1) \in ReservedBefore(i)
    /\ \E i \in 1..Len(destDecisions) :
          destDecisions[i].Action = ActionSkippedIdentical

\* No file exists under the destination root.
DestinationIsEmpty ==
    \A q \in DOMAIN fs : SubSeq(q, 1, Len(DestRoot)) # DestRoot

\* C27: on an empty destination the reconciler confirms the planner: every
\* decision has the planned path as its final path and is never
\* skipped_identical; it is copy exactly when the planned path is the
\* directory joined with the file name of the source, and copy_renamed when
\* the planned path carries a collision suffix.
ReconcilerConfirmsThePlan ==
    DestinationIsEmpty =>
        \A i \in 1..Len(destDecisions) :
            LET d == destDecisions[i]
                plain == Join(Dir(d.DestinationPath), Base(d.SourcePath))
            IN  /\ d.DestinationPath = ops[i].DestinationPath
                /\ d.FinalDestinationPath = d.DestinationPath
                /\ d.Action \in {ActionCopy, ActionCopyRenamed}
                /\ d.Action = ActionCopy <=> d.DestinationPath = plain
                /\ d.Action = ActionCopyRenamed <=>
                      \E n \in 1..ProbeBound :
                          d.DestinationPath = CandidateOf(i, n)

\* Three sources of one day were reconciled against an empty destination:
\* one is copied under its name, one renamed to name_2.ext as planned.
ReconcilerConfirmsThePlanWitness ==
    /\ pc = "resolved"
    /\ err = "nil"
    /\ DestinationIsEmpty
    /\ Len(destDecisions) = 3
    /\ \E i \in 1..3 : destDecisions[i].Action = ActionCopy
    /\ \E i \in 1..3 :
          /\ destDecisions[i].Action = ActionCopyRenamed
          /\ destDecisions[i].FinalDestinationPath = CandidateOf(i, 2)
          /\ ops[i].DestinationPath = CandidateOf(i, 2)

----------------------------------------------------------------------------
(* Organize runs over a source tree of three files, two of the same name,  *)
(* with equal or different contents and timestamps, and a destination that *)
(* already holds up to MaxDestFiles files.                                 *)

RunPaths == {SrcA, SrcA1, SrcDA}
RunTimes == {ZeroTime, T2020, T2020Late}

InitRun ==
    /\ \E src \in [RunPaths -> ResolveContents], dst \in DestTrees :
          fs = Override(src, dst)
    /\ dirs = DirsOf(fs)
    /\ faults = {}
    /\ execute = TRUE
    /\ overwrite = FALSE
    /\ results = <<>>
    /\ IdleAttr
    /\ IdleScan
    /\ openFiles = {}
    /\ details \in [RunPaths -> RunTimes]
    /\ sources = <<>>
    /\ sizes = <<>>
    /\ cmpArgs = <<>>
    /\ cmpResult = [identical |-> FALSE, err |-> "nil"]
    /\ callArgs = <<>>
    /\ callResult = <<>>
    /\ pc = "start"
    /\ bySize = <<>>
    /\ sizesLeft = {}
    /\ headerGroups = <<>>
    /\ groupsLeft = {}
    /\ keptSet = {}
    /\ skipSet = {}
    /\ duplicateOf = <<>>
    /\ kept = <<>>
    /\ decisions = <<>>
    /\ err = "nil"
    /\ firstRun = <<>>
    /\ IdlePlan
    /\ IdleResolve

NextRun ==
    \/ OrganizeScan
    \/ DedupeStart
    \/ \E size \in sizesLeft : DedupeSizeGroup(size)
    \/ \E h \in groupsLeft : DedupeHeaderGroup(h)
    \/ DedupeFinish
    \/ OrganizePlan
    \/ ResolveOp
    \/ ResolveReturn
    \/ OrganizeMerge
    \/ OrganizeExecute

SpecRun == InitRun /\ [][NextRun]_vars

\* C4: DedupeSources returns one decision per source, in order, copy for
\* the kept sources and skipped_duplicate_source for the others; the
\* reconciler returns one decision per kept source, in order; and the final
\* list of the run holds exactly one decision per scanned source, in scan
\* order.
OneDecisionPerSource ==
    /\ (pc \in {"done", "planned", "resolving", "resolved", "decided", "finished"}
        /\ err = "nil") =>
          /\ Len(decisions) = Len(sources)
          /\ \A i \in 1..Len(sources) :
                /\ decisions[i].SourcePath = sources[i]
                /\ decisions[i].Action =
                      IF sources[i] \in KeptSources THEN ActionCopy
                      ELSE ActionSkippedDuplicateSrc
    /\ (pc \in {"resolved", "decided", "finished"} /\ err = "nil") =>
          /\ Len(destDecisions) = Len(kept)
          /\ \A i \in 1..Len(kept) : destDecisions[i].SourcePath = kept[i]
    /\ pc \in {"decided", "finished"} =>
          /\ Len(finalDecisions) = Len(sources)
          /\ \A i \in 1..Len(sources) :
                /\ finalDecisions[i].SourcePath = sources[i]
                /\ sources[i] \notin KeptSources
                      => finalDecisions[i].Action = ActionSkippedDuplicateSrc
                /\ sources[i] \in KeptSources
                      => finalDecisions[i].Action # ActionSkippedDuplicateSrc
          /\ \A p \in {q \in DOMAIN fs : IsSourcePath(q)} :
                Cardinality({i \in 1..Len(finalDecisions) :
                                finalDecisions[i].SourcePath = p}) = 1

\* A finished run with a duplicate source, a source found identical in the
\* destination and a source that was copied.
OneDecisionPerSourceWitness ==
    /\ pc = "finished"
    /\ \E i, j, k \in 1..Len(finalDecisions) :
          /\ finalDecisions[i].Action = ActionSkippedDuplicateSrc
          /\ finalDecisions[j].Action = ActionSkippedIdentical
          /\ finalDecisions[k].Action \in {ActionCopied, ActionCopiedRenamed}

\* C18: a source that DedupeSources marked skipped_duplicate_source keeps
\* that decision, with its DuplicateOf, in the final list; it has no planned
\* and no final destination, the planner and the reconciler never see it,
\* and no operation handed to copy.Execute names it.
DuplicateSkipsTakePrecedence ==
    \A i \in 1..Len(decisions) :
        decisions[i].Action = ActionSkippedDuplicateSrc =>
            /\ decisions[i].DuplicateOf # <<>>
            /\ \A k \in 1..Len(ops) :
                   ops[k].SourcePath # decisions[i].SourcePath
            /\ \A k \in 1..Len(destDecisions) :
                   destDecisions[k].SourcePath # decisions[i].SourcePath
            /\ pc \in {"decided", "finished"} =>
                   /\ \E j \in 1..Len(finalDecisions) :
                          finalDecisions[j].SourcePath = decisions[i].SourcePath
                   /\ \A j \in 1..Len(finalDecisions) :
                          finalDecisions[j].SourcePath = decisions[i].SourcePath
                              => /\ finalDecisions[j] = decisions[i]
                                 /\ finalDecisions[j].DestinationPath = <<>>
                                 /\ finalDecisions[j].FinalDestinationPath = <<>>
                   /\ \A k \in 1..Len(opsToCopy(finalDecisions)) :
                          opsToCopy(finalDecisions)[k].SourcePath
                              # decisions[i].SourcePath
            /\ \A k \in 1..Len(results) :
                   results[k].Operation.SourcePath # decisions[i].SourcePath

\* An executed run copied the oldest of two identical sources and left the
\* other one skipped as its duplicate.
DuplicateSkipsTakePrecedenceWitness ==
    /\ pc = "finished"
    /\ execute
    /\ \E j \in 1..Len(finalDecisions), k \in 1..Len(results) :
          /\ finalDecisions[j].Action = ActionSkippedDuplicateSrc
          /\ results[k].Operation.SourcePath = finalDecisions[j].DuplicateOf
          /\ results[k].Success

\* The copy decisions of ds name paths that are not in the filesystem f,
\* in the directory of the planned path and of the form name.ext or
\* name_N.ext for the file name of the source.
CopiesGoToFreeSlots(ds, f) ==
    \A i \in CopyDecisions(ds) :
        /\ ds[i].FinalDestinationPath \notin DOMAIN f
        /\ Dir(ds[i].FinalDestinationPath) = Dir(ds[i].DestinationPath)
        /\ \E n \in 0..(Len(ds) + Cardinality(DOMAIN f)) :
              ds[i].FinalDestinationPath
                 = NthName(Dir(ds[i].DestinationPath), Base(ds[i].SourcePath), n)

\* The copies res met no existing destination, and every file of the
\* filesystem f is in the filesystem g with the bytes it had.
NothingExistingIsTouched(res, f, g) ==
    /\ \A i \in 1..Len(res) : res[i].Error # "ErrDestinationExists"
    /\ \A q \in DOMAIN f : q \in DOMAIN g /\ g[q] = f[q]

----------------------------------------------------------------------------
(* Organize runs that meet an I/O failure: two sources of one file name    *)
(* dated to one day, a destination that may hold a file of that name, and  *)
(* at most one injected fault on a source, a destination file, or the      *)
(* destination directory.                                                  *)

FaultySources == {SrcA, SrcDA}
FaultyContents == {<<0>>, <<1>>, <<0, 0>>}
FaultyDestPaths == {Join(DestDir2020, <<"a", ".", "j">>),
                    Join(DestDir2020, <<"a", "_", "1", ".", "j">>)}
FaultyDestTrees ==
    UNION {[D -> ResolveContents] : D \in SUBSET {Join(DestDir2020, <<"a", ".", "j">>)}}

\* The single faults of a run.
RunFaults ==
    {Fault(p, op, 0) : p \in FaultySources, op \in {"stat", "open", "read"}}
        \cup {Fault(p, op, 0) : p \in FaultyDestPaths,
                                op \in {"stat", "open", "read", "create",
                                        "write", "sync"}}
        \cup {Fault(DestDir2020, "mkdir", 0)}

InitRunFaults ==
    /\ \E src \in [FaultySources -> FaultyContents], dst \in FaultyDestTrees :
          fs = Override(src, dst)
    /\ dirs = DirsOf(fs)
    /\ faults \in {{}} \cup {{f} : f \in RunFaults}
    /\ execute \in BOOLEAN
    /\ overwrite = FALSE
    /\ results = <<>>
    /\ IdleAttr
    /\ IdleScan
    /\ openFiles = {}
    /\ details \in [FaultySources -> {T2020, T2020Late}]
    /\ sources = <<>>
    /\ sizes = <<>>
    /\ cmpArgs = <<>>
    /\ cmpResult = [identical |-> FALSE, err |-> "nil"]
    /\ callArgs = <<>>
    /\ callResult = <<>>
    /\ pc = "start"
    /\ bySize = <<>>
    /\ sizesLeft = {}
    /\ headerGroups = <<>>
    /\ groupsLeft = {}
    /\ keptSet = {}
    /\ skipSet = {}
    /\ duplicateOf = <<>>
    /\ kept = <<>>
    /\ decisions = <<>>
    /\ err = "nil"
    /\ firstRun = <<>>
    /\ IdlePlan
    /\ IdleResolve

NextRunFaults ==
    \/ OrganizeScan
    \/ DedupeStart
    \/ \E size \in sizesLeft : DedupeSizeGroup(size)
    \/ \E h \in groupsLeft : DedupeHeaderGroup(h)
    \/ DedupeFinish
    \/ OrganizeFail
    \/ OrganizePlan
    \/ ResolveOp
    \/ ResolveReturn
    \/ OrganizeMerge
    \/ OrganizeExecute
    \/ OrganizeDryRun

SpecRunFaults == InitRunFaults /\ [][NextRunFaults]_vars

\* C12: a step of an organize run creates a directory or a file only with
\* --execute, and only after scan, attribution, DedupeSources,
\* PlanDestinations and ResolveAgainstDestination have all returned without
\* error; a failed run and a dry run write nothing.
WritesOnlyAfterPlanning ==
    [][(fs' # fs \/ dirs' # dirs) =>
          /\ execute
          /\ pc = "decided"
          /\ err = "nil"
          /\ Len(sources) = Cardinality({p \in DOMAIN fs : IsSourcePath(p)})
          /\ Len(decisions) = Len(sources)
          /\ Len(ops) = Len(kept)
          /\ Len(destDecisions) = Len(ops)
          /\ pc' = "finished"]_vars

\* An executed run created the directory of the day and copied a file into
\* it.
WritesOnlyAfterPlanningWitness ==
    /\ pc = "finished"
    /\ execute
    /\ DestDir2020 \in dirs
    /\ \E i \in 1..Len(results) :
          /\ results[i].Success
          /\ results[i].Operation.DestinationPath \in DOMAIN fs
          /\ Dir(results[i].Operation.DestinationPath) = DestDir2020

\* The decisions of ds that ask for a copy, in order.
AskingForCopy(ds) ==
    SelectSeq(ds, LAMBDA d : d.Action \in {ActionCopy, ActionCopyRenamed})

\* The destination organize copies the source of decision d to.
CopyTarget(d) ==
    IF d.FinalDestinationPath = <<>> THEN d.DestinationPath
    ELSE d.FinalDestinationPath

\* C19: the executing step of organize attempts every copy and copy_renamed
\* decision exactly once, whatever happened to the earlier ones: copy.Execute
\* returns one Result per such decision, in order; a decision whose copy
\* succeeded becomes copied or copied_renamed and its file is in place, one
\* whose copy failed becomes failed with the error of its Result; every other
\* decision is unchanged.
EveryCopyIsAttempted ==
    [][(pc = "decided" /\ execute /\ pc' = "finished") =>
          LET asking == AskingForCopy(finalDecisions)
          IN  /\ Len(results') = Len(asking)
              /\ \A k \in 1..Len(asking) :
                     /\ results'[k].Operation.SourcePath = asking[k].SourcePath
                     /\ results'[k].Operation.DestinationPath
                            = CopyTarget(asking[k])
                     /\ results'[k].Success <=> results'[k].Error = "nil"
                     /\ results'[k].Success =>
                            /\ CopyTarget(asking[k]) \in DOMAIN fs'
                            /\ fs'[CopyTarget(asking[k])]
                                   = fs[asking[k].SourcePath]
              /\ Len(finalDecisions') = Len(finalDecisions)
              /\ \A i \in 1..Len(finalDecisions) :
                     LET d == finalDecisions[i]
                         mine == {k \in 1..Len(results') :
                                     results'[k].Operation.SourcePath
                                         = d.SourcePath}
                     IN  IF d.Action \notin {ActionCopy, ActionCopyRenamed}
                         THEN /\ finalDecisions'[i] = d
                              /\ mine = {}
                         ELSE /\ Cardinality(mine) = 1
                              /\ \A k \in mine :
                                     finalDecisions'[i] =
                                         IF results'[k].Success
                                         THEN [d EXCEPT !.Action =
                                                  IF d.Action = ActionCopy
                                                  THEN ActionCopied
                                                  ELSE ActionCopiedRenamed]
                                         ELSE [d EXCEPT
                                                  !.Action = ActionFailed,
                                                  !.Error = results'[k].Error]
    ]_vars

\* An executed run whose first copy failed and whose second copy, to a
\* renamed destination, succeeded, next to the decisions they ended as.
EveryCopyIsAttemptedWitness ==
    /\ pc = "finished"
    /\ execute
    /\ Len(results) = 2
    /\ ~results[1].Success
    /\ results[2].Success
    /\ \E i, j \in 1..Len(finalDecisions) :
          /\ i < j
          /\ finalDecisions[i].Action = ActionFailed
          /\ finalDecisions[i].Error # "nil"
          /\ finalDecisions[j].Action = ActionCopiedRenamed

----------------------------------------------------------------------------
(* copy.Execute on one or two operations, with and without Overwrite, onto *)
(* destinations that exist or not, with at most one injected fault.        *)

CopySources == {SrcA, SrcDA}
CopyContents == {<<0>>, <<1, 1>>}
CopyDestinations == FaultyDestPaths \cup {SrcA}
CopyTrees ==
    UNION {[D -> ResolveContents] : D \in SUBSET FaultyDestPaths}

CopyFaults ==
    {Fault(p, op, at) : p \in CopySources, op \in {"open", "stat", "read"},
                        at \in {0}}
        \cup {Fault(SrcDA, "read", 1)}
        \cup {Fault(p, op, 0) : p \in FaultyDestPaths,
                                op \in {"create", "write", "sync"}}
        \cup {Fault(DestDir2020, "mkdir", 0)}

InitCopy ==
    /\ \E src \in [CopySources -> CopyContents], dst \in CopyTrees :
          fs = Override(src, dst)
    /\ dirs = DirsOf(fs)
    /\ faults \in {{}} \cup {{f} : f \in CopyFaults}
    /\ ops \in UNION {[1..n -> {Operation(src, dst) : src \in CopySources,
                                                      dst \in CopyDestinations}] :
                         n \in 1..2}
    /\ overwrite \in BOOLEAN
    /\ execute = TRUE
    /\ results = <<>>
    /\ IdleAttr
    /\ IdleScan
    /\ openFiles = {}
    /\ details = <<>>
    /\ sources = <<>>
    /\ sizes = <<>>
    /\ cmpArgs = <<>>
    /\ cmpResult = [identical |-> FALSE, err |-> "nil"]
    /\ callArgs = <<>>
    /\ callResult = <<>>
    /\ pc = "copy"
    /\ bySize = <<>>
    /\ sizesLeft = {}
    /\ headerGroups = <<>>
    /\ groupsLeft = {}
    /\ keptSet = {}
    /\ skipSet = {}
    /\ duplicateOf = <<>>
    /\ kept = <<>>
    /\ decisions = <<>>
    /\ err = "nil"
    /\ firstRun = <<>>
    /\ bestCreatedAt = <<>>
    /\ existingFiles = {}
    /\ IdleResolve

\* copy.Execute(operations, copy.Options{Overwrite: overwrite})
CallExecute ==
    /\ pc = "copy"
    /\ LET r == Execute(fs, dirs, ops, overwrite, 1, <<>>)
       IN  /\ fs' = r.fs
           /\ dirs' = r.dirs
           /\ results' = r.results
    /\ pc' = "copied"
    /\ UNCHANGED <<scanVars, openFiles, attrVars, eqVars, faults, execute, overwrite, sources, details,
                   sizes, err, dedupeVars, planVars, resolveVars,
                   finalDecisions>>

NextCopy == CallExecute

SpecCopy == InitCopy /\ [][NextCopy]_vars

\* Operation i is the last to write its destination, and its source was
\* the destination of no operation up to it.
Undisturbed(i) ==
    /\ \A j \in (i + 1)..Len(ops) :
          ops[j].DestinationPath # ops[i].DestinationPath
    /\ \A j \in 1..i : ops[j].DestinationPath # ops[i].SourcePath

\* C13: copy.Execute with Overwrite=false changes and removes no file that
\* exists, and the Result of an operation whose destination exists has
\* Success=false and an error; with Overwrite=true a successful operation
\* leaves the source's bytes at the destination.
ExistingFilesAreKept ==
    [][CallExecute =>
          /\ ~overwrite =>
                /\ \A p \in DOMAIN fs : p \in DOMAIN fs' /\ fs'[p] = fs[p]
                /\ \A i \in 1..Len(ops) :
                      ops[i].DestinationPath \in DOMAIN fs =>
                          /\ ~results'[i].Success
                          /\ results'[i].Error # "nil"
          /\ overwrite =>
                \A i \in 1..Len(ops) :
                    results'[i].Success /\ Undisturbed(i) =>
                        fs'[ops[i].DestinationPath] = fs[ops[i].SourcePath]
      ]_vars

\* Without Overwrite an operation onto an existing file of other content was
\* refused and the file still has that content.
ExistingFilesAreKeptWitness ==
    /\ pc = "copied"
    /\ ~overwrite
    /\ \E i \in 1..Len(ops) :
          /\ results[i].Error = "ErrDestinationExists"
          /\ ops[i].DestinationPath \in FaultyDestPaths
          /\ fs[ops[i].DestinationPath] # fs[ops[i].SourcePath]

----------------------------------------------------------------------------
(* The equality engine on its own: two files of arbitrary content.         *)

EqPath1 == <<"s", "/", "a", ".", "j">>
EqPath2 == <<"s", "/", "b", ".", "j">>
EqPaths == {EqPath1, EqPath2}
EqContents == SeqsUpTo(Bytes, MaxFileLen)

InitEq ==
    /\ fs \in [EqPaths -> EqContents]
    /\ dirs = DirsOf(fs)
    /\ faults = {}
    /\ execute = FALSE
    /\ overwrite = FALSE
    /\ results = <<>>
    /\ IdleAttr
    /\ IdleScan
    /\ openFiles = {}
    /\ cmpArgs = <<>>
    /\ cmpResult = [identical |-> FALSE, err |-> "nil"]
    /\ callArgs = <<>>
    /\ callResult = <<>>
    /\ sources = <<>>
    /\ details = <<>>
    /\ sizes = <<>>
    /\ IdleDedupe
    /\ IdlePlan
    /\ IdleResolve

CompareFiles(p1, p2) ==
    /\ cmpArgs' = <<p1, p2>>
    /\ cmpResult' = filesAreIdentical(p1, p2)
    /\ openFiles' = After(openFiles, filesAreIdenticalHandles(p1, p2))
    /\ UNCHANGED <<inputVars, pc, err, dedupeVars, planVars, resolveVars,
                   finalDecisions, copyVars, attrVars, scanVars, callArgs,
                   callResult>>

NextEq == \E p1, p2 \in EqPaths : CompareFiles(p1, p2)

SpecEq == InitEq /\ [][NextEq]_vars

\* C1: filesAreIdentical(p1, p2) returns true if and only if the two files
\* have the same length and the same byte at every offset, and it returns
\* no error for two readable files.
EqualityIsExact ==
    cmpArgs # <<>> =>
        /\ cmpResult.err = "nil"
        /\ cmpResult.identical <=>
              /\ Len(fs[cmpArgs[1]]) = Len(fs[cmpArgs[2]])
              /\ \A i \in 1..Len(fs[cmpArgs[1]]) :
                     fs[cmpArgs[1]][i] = fs[cmpArgs[2]][i]

\* Two distinct files longer than the header window were found identical.
EqualityIsExactWitness ==
    /\ cmpArgs # <<>>
    /\ cmpArgs[1] # cmpArgs[2]
    /\ Len(fs[cmpArgs[1]]) > headerBytes
    /\ cmpResult.identical

----------------------------------------------------------------------------
(* The equality engine on two files of which one may fail to be stat'd,    *)
(* opened, or read at one offset.                                          *)

EqFaults ==
    {Fault(p, op, 0) : p \in EqPaths, op \in {"stat", "open"}}
        \cup {Fault(p, "read", at) : p \in EqPaths, at \in 0..(MaxFileLen - 1)}

InitEqFaults ==
    /\ fs \in [EqPaths -> EqContents]
    /\ dirs = DirsOf(fs)
    /\ faults \in {{}} \cup {{f} : f \in EqFaults}
    /\ execute = FALSE
    /\ overwrite = FALSE
    /\ results = <<>>
    /\ IdleAttr
    /\ IdleScan
    /\ openFiles = {}
    /\ cmpArgs = <<>>
    /\ cmpResult = [identical |-> FALSE, err |-> "nil"]
    /\ callArgs = <<>>
    /\ callResult = <<>>
    /\ sources = <<>>
    /\ details = <<>>
    /\ sizes = <<>>
    /\ IdleDedupe
    /\ IdlePlan
    /\ IdleResolve

SpecEqFaults == InitEqFaults /\ [][NextEq]_vars

\* The two files have the same bytes before offset n.
SamePrefix(p1, p2, n) ==
    \A i \in 1..n : i <= Len(fs[p1]) /\ i <= Len(fs[p2]) => fs[p1][i] = fs[p2][i]

\* The offset at which the read that covers offset at begins: 0 in the
\* header window, the start of its chunk after it.
ReadStart(at) ==
    IF at < headerBytes THEN 0
    ELSE headerBytes + ((at - headerBytes) \div chunkBytes) * chunkBytes

\* The comparison of p1 and p2 performs the operation the fault f strikes:
\* the stats come first, the opens follow when the sizes are equal, and a
\* read is made when all bytes before it were found equal.
Performs(f, p1, p2) ==
    /\ f.path \in {p1, p2}
    /\ \/ f.op = "stat"
       \/ /\ f.op = "open"
          /\ Len(fs[p1]) = Len(fs[p2])
       \/ /\ f.op = "read"
          /\ Len(fs[p1]) = Len(fs[p2])
          /\ f.at < Len(fs[p1])
          /\ SamePrefix(p1, p2, ReadStart(f.at))

\* C14 as stated: filesAreIdentical returns an error whenever a stat, an
\* open or a read it makes on either file fails, in the header phase and in
\* the remainder phase; it returns neither (false, nil) nor (true, nil).
ReadErrorsAreSurfaced ==
    cmpArgs # <<>> =>
        \A f \in faults :
            Performs(f, cmpArgs[1], cmpArgs[2]) => cmpResult.err # "nil"

----------------------------------------------------------------------------
(* DedupeSources, PlanDestinations and ResolveAgainstDestination called in *)
(* turn on two sources of one file name, with every size recorded or one   *)
(* missing, a destination that may hold a file of that name, and at most   *)
(* one injected fault.                                                     *)

BatchSources == <<SrcA, SrcDA>>
BatchDest == Join(DestDir2020, <<"a", ".", "j">>)
BatchTrees == UNION {[D -> DedupeContents] : D \in SUBSET {BatchDest}}

BatchFaults ==
    {Fault(p, op, 0) : p \in {SrcA, SrcDA, BatchDest}, op \in {"stat", "open"}}
        \cup {Fault(p, "read", at) : p \in {SrcA, SrcDA, BatchDest},
                                     at \in 0..headerBytes}

InitBatchFaults ==
    /\ sources = BatchSources
    /\ \E src \in [SeqToSet(BatchSources) -> DedupeContents], dst \in BatchTrees :
          /\ fs = Override(src, dst)
          /\ sizes \in {[q \in D |-> Len(src[q])] :
                           D \in {SeqToSet(BatchSources)}
                                    \cup {SeqToSet(BatchSources) \ {q} :
                                             q \in SeqToSet(BatchSources)}}
    /\ dirs = DirsOf(fs)
    /\ faults \in {{}} \cup {{f} : f \in BatchFaults}
    /\ execute = FALSE
    /\ overwrite = FALSE
    /\ results = <<>>
    /\ IdleAttr
    /\ IdleScan
    /\ openFiles = {}
    /\ details = [q \in SeqToSet(BatchSources) |-> T2020]
    /\ bestCreatedAt = [q \in SeqToSet(BatchSources) |-> T2020]
    /\ cmpArgs = <<>>
    /\ cmpResult = [identical |-> FALSE, err |-> "nil"]
    /\ callArgs = <<>>
    /\ callResult = <<>>
    /\ IdleDedupe
    /\ existingFiles = {}
    /\ ops = <<>>
    /\ IdleResolve

NextBatchFaults ==
    \/ DedupeStart
    \/ \E size \in sizesLeft : DedupeSizeGroup(size)
    \/ \E h \in groupsLeft : DedupeHeaderGroup(h)
    \/ DedupeFinish
    \/ OrganizePlan
    \/ ResolveOp
    \/ ResolveReturn

SpecBatchFaults == InitBatchFaults /\ [][NextBatchFaults]_vars

SizeIsMissing == \E i \in 1..Len(sources) : sources[i] \notin DOMAIN sizes

\* DedupeSources performs the operation the fault f strikes: it opens and
\* hashes the header of a source that shares its size with another one, and
\* it compares two sources of one size and header byte by byte.
DedupePerforms(f) ==
    /\ ~SizeIsMissing
    /\ \E q \in SeqToSet(sources) \ {f.path} :
          /\ f.path \in SeqToSet(sources)
          /\ Len(fs[q]) = Len(fs[f.path])
          /\ \/ f.op = "open"
             \/ /\ f.op = "stat"
                /\ HeaderWindow(q) = HeaderWindow(f.path)
             \/ /\ f.op = "read"
                /\ f.at < Len(fs[f.path])
                /\ SamePrefix(f.path, q, ReadStart(f.at))

\* ResolveAgainstDestination performs the operation the fault f strikes on
\* its first operation: it stats the unsuffixed candidate and compares it
\* with the source.
ResolvePerforms(f) ==
    /\ ops # <<>>
    /\ LET src == ops[1].SourcePath
           candidate == Join(Dir(ops[1].DestinationPath), Base(src))
       IN  /\ candidate \in DOMAIN fs
           /\ \/ f.op = "stat" /\ f.path \in {src, candidate}
              \/ Performs(f, src, candidate)

\* C15 as stated: a missing size or a failing open, stat or read makes
\* DedupeSources return the error without kept list and decisions, a failing
\* stat or comparison makes ResolveAgainstDestination return the error
\* without decisions, and no call returns an error with a partial result.
FailuresAbortTheBatch ==
    /\ pc = "done" /\ (SizeIsMissing \/ \E f \in faults : DedupePerforms(f))
          => err # "nil"
    /\ pc = "done" /\ err # "nil" => kept = <<>> /\ decisions = <<>>
    /\ pc = "resolved" /\ (\E f \in faults : ResolvePerforms(f))
          => err # "nil"
    /\ pc = "resolved" /\ err # "nil" => destDecisions = <<>>

----------------------------------------------------------------------------
(* Attribution of one path: a regular file, a directory or nothing at the  *)
(* path, a stat or open that may fail, every answer of the extractor, two  *)
(* locations and three modification times; the file names match each of    *)
(* the patterns, none, or parse to the zero time.                          *)

NameImg ==
    <<"s", "/", "I", "M", "G", "_", "2", "0", "2", "4", "0", "1", "0", "2",
      "_", "0", "3", "0", "4", "0", "5", ".", "j">>
NameVidOverflow ==
    <<"s", "/", "v", "i", "d", "_", "2", "0", "2", "4", "1", "3", "0", "1",
      "_", "2", "5", "0", "0", "0", "0", ".", "j">>
NameZeroUTC ==
    <<"s", "/", "0", "0", "0", "1", "-", "0", "1", "-", "0", "1", " ", "0",
      "0", ".", "0", "0", ".", "0", "0", ".", "j">>
NameZeroPlus2 ==
    <<"s", "/", "0", "0", "0", "1", "-", "0", "1", "-", "0", "1", "_", "0",
      "2", ".", "0", "0", ".", "0", "0", ".", "j">>
NamePlain ==
    <<"s", "/", "a", ".", "j">>
NamePxl ==
    <<"s", "/", "P", "X", "L", "_", "2", "0", "2", "4", "0", "1", "0", "2",
      "_", "0", "3", "0", "4", "0", "5", "1", "2", "3", ".", "j">>
NameWhatsApp ==
    <<"s", "/", "I", "M", "G", "-", "2", "0", "2", "4", "0", "1", "0", "2",
      "-", "W", "A", "0", "0", "0", "1", ".", "j">>
NameScreenshot ==
    <<"s", "/", "S", "c", "r", "e", "e", "n", "s", "h", "o", "t", "_", "2",
      "0", "2", "4", "-", "0", "1", "-", "0", "2", "-", "0", "3", "-", "0",
      "4", "-", "0", "5", ".", "j">>
NameShortDate ==
    <<"s", "/", "I", "M", "G", "_", "2", "0", "2", "4", "0", "1", "0", "_",
      "0", "3", "0", "4", "0", "5", ".", "j">>

AttrPaths == {NameImg, NameVidOverflow, NameZeroUTC, NameZeroPlus2, NamePlain,
              NamePxl, NameWhatsApp, NameScreenshot, NameShortDate}
PlusTwo == 2 * 60 * 60
AttrLocations == {UTC, PlusTwo}
MetaTime == <<2023, 12, 31, 86399, UTC>>
ModTime == <<2025, 1, 1, 0, UTC>>
ZeroInPlusTwo == <<1, 1, 1, PlusTwo, PlusTwo>>
AttrExtracted ==
    [t : {ZeroValue, MetaTime}, ok : BOOLEAN, err : {"nil", "EIO"}]
AttrModTimes == {ZeroValue, ZeroInPlusTwo, ModTime}

InitAttr ==
    /\ \E path \in AttrPaths, kind \in {"file", "dir", "none"} :
          /\ fs = IF kind = "file" THEN [q \in {path} |-> <<0>>] ELSE <<>>
          /\ dirs = IF kind = "dir" THEN {path} \cup Parents(path)
                    ELSE Parents(path)
          /\ faults \in {{}, {Fault(path, "stat", 0)}, {Fault(path, "open", 0)}}
          /\ detArgs \in [path : {path}, location : AttrLocations,
                           extracted : AttrExtracted, mtime : AttrModTimes]
    /\ detResult = [err |-> "nil", result |-> NoResult]
    /\ IdleScan
    /\ openFiles = {}
    /\ execute = FALSE
    /\ overwrite = FALSE
    /\ results = <<>>
    /\ cmpArgs = <<>>
    /\ cmpResult = [identical |-> FALSE, err |-> "nil"]
    /\ callArgs = <<>>
    /\ callResult = <<>>
    /\ sources = <<>>
    /\ details = <<>>
    /\ sizes = <<>>
    /\ pc = "attribute"
    /\ bySize = <<>>
    /\ sizesLeft = {}
    /\ headerGroups = <<>>
    /\ groupsLeft = {}
    /\ keptSet = {}
    /\ skipSet = {}
    /\ duplicateOf = <<>>
    /\ kept = <<>>
    /\ decisions = <<>>
    /\ err = "nil"
    /\ firstRun = <<>>
    /\ IdlePlan
    /\ IdleResolve

NextAttr ==
    \/ CallDetermineDetailed
    \/ CallDetermine

SpecAttr == InitAttr /\ [][NextAttr]_vars

Returned == pc \in {"attributed", "determined"} /\ detResult.err = "nil"

\* The timestamp the file name of the call gives, if it matches a pattern.
FromFilename == parseFromFilename(Base(detArgs.path), detArgs.location)

\* The extractor of the call found a timestamp and reported no error.
Extracted == detArgs.extracted.ok /\ detArgs.extracted.err = "nil"

\* C16 as stated: Best is the metadata timestamp if the extractor returned
\* found without error, else the timestamp parsed from the file name in the
\* configured zone, else the non-zero modification time, else unknown with
\* the zero timestamp.
PriorityByPresence ==
    Returned =>
        detResult.result.Best =
            IF Extracted THEN Result(detArgs.extracted.t, SourceMetadata)
            ELSE IF FromFilename.ok THEN Result(FromFilename.t, SourceFilename)
            ELSE IF ~IsZeroInstant(detArgs.mtime)
            THEN Result(detArgs.mtime, SourceMtime)
            ELSE Result(ZeroValue, SourceUnknown)

\* C16 (amended): Best is the metadata timestamp if the extractor returned
\* found without error and a non-zero timestamp, else the timestamp parsed
\* from the file name in the configured zone if it is non-zero, else the
\* non-zero modification time, else unknown with the zero timestamp;
\* Best.Source names the source used, and the call fails only on a path that
\* is missing, a directory, or cannot be stat'd or opened, whatever the
\* extractor answers.
PriorityByNonZero ==
    /\ Returned =>
          /\ detResult.result.Best =
                IF Extracted /\ ~IsZeroInstant(detArgs.extracted.t)
                THEN Result(detArgs.extracted.t, SourceMetadata)
                ELSE IF FromFilename.ok /\ ~IsZeroInstant(FromFilename.t)
                THEN Result(FromFilename.t, SourceFilename)
                ELSE IF ~IsZeroInstant(detArgs.mtime)
                THEN Result(detArgs.mtime, SourceMtime)
                ELSE Result(ZeroValue, SourceUnknown)
          /\ FromFilename.ok => FromFilename.t[5] = detArgs.location
    /\ pc \in {"attributed", "determined"} /\ detResult.err # "nil" =>
          \/ detArgs.path \notin DOMAIN fs
          \/ faults # {}

\* The extractor reported a zero timestamp as found, and the timestamp of
\* the file name was chosen.
PriorityByNonZeroWitness ==
    /\ Returned
    /\ Extracted
    /\ detArgs.extracted.t = ZeroValue
    /\ detResult.result.Best.Source = SourceFilename
    /\ detResult.result.Best.CreatedAt = <<2024, 1, 2, 11045, PlusTwo>>

\* C30: in a result that DetermineDetailed returns, Best.CreatedAt is the
\* zero time exactly when Best.Source is unknown; a candidate that is the
\* zero time is never chosen, whatever its zone and wherever it comes from;
\* and organize and PlanDestinations put the source in the unknown bucket
\* exactly when Best.Source is unknown.
ZeroMeansUnknown ==
    Returned =>
        LET best == detResult.result.Best
        IN  /\ IsZeroInstant(best.CreatedAt) <=> best.Source = SourceUnknown
            /\ best.Source = SourceUnknown => best.CreatedAt = ZeroValue
            /\ best.Source = SourceMetadata =>
                  best.CreatedAt = detArgs.extracted.t
            /\ best.Source = SourceFilename => best.CreatedAt = FromFilename.t
            /\ best.Source = SourceMtime => best.CreatedAt = detArgs.mtime
            /\ GoesToUnknown(bestCreatedAtEntry(detResult.result))
                  <=> best.Source = SourceUnknown

\* The extractor reported the zero time as found, the file name gives no
\* timestamp and the modification time is the zero instant written in
\* another zone: the result is unknown with the zero time.
ZeroMeansUnknownWitness ==
    /\ Returned
    /\ Extracted
    /\ detArgs.extracted.t = ZeroValue
    /\ ~FromFilename.ok
    /\ detArgs.mtime = ZeroInPlusTwo
    /\ detResult.result.Best = Result(ZeroValue, SourceUnknown)
    /\ GoesToUnknown(bestCreatedAtEntry(detResult.result))

\* C17 as stated: the call fails only when the path cannot be stat'd, does
\* not exist or is a directory, and returns a nil error in every other
\* situation.
FailsOnlyWithoutAFile ==
    pc \in {"attributed", "determined"} =>
        (detResult.err # "nil" <=>
            \/ ~Exists(detArgs.path)
            \/ Fails(detArgs.path, "stat"))

----------------------------------------------------------------------------
(* The size short-circuit: three sources of two sizes, of which one may    *)
(* fail to be stat'd, opened, or read at one offset, compared pairwise and *)
(* deduplicated.                                                           *)

ShortSources == <<SrcA, SrcB, SrcDA>>
ShortContents == {Zeros(headerBytes), Zeros(headerBytes + 1),
                  Append(Zeros(headerBytes), 1)}
ShortFaults ==
    {Fault(p, op, 0) : p \in DedupePaths, op \in {"stat", "open"}}
        \cup {Fault(p, "read", at) : p \in DedupePaths, at \in 0..headerBytes}

InitShort ==
    /\ fs \in [DedupePaths -> ShortContents]
    /\ dirs = DirsOf(fs)
    /\ faults \in {{}} \cup {{f} : f \in ShortFaults}
    /\ execute = FALSE
    /\ overwrite = FALSE
    /\ results = <<>>
    /\ IdleAttr
    /\ IdleScan
    /\ openFiles = {}
    /\ sources = ShortSources
    /\ details \in [DedupePaths -> {T2020}]
    /\ sizes = RealSizes
    /\ cmpArgs = <<>>
    /\ cmpResult = [identical |-> FALSE, err |-> "nil"]
    /\ callArgs = <<>>
    /\ callResult = <<>>
    /\ IdleDedupe
    /\ IdlePlan
    /\ IdleResolve

NextShort ==
    \/ \E p1, p2 \in DedupePaths : CompareFiles(p1, p2)
    \/ DedupeStart
    \/ \E size \in sizesLeft : DedupeSizeGroup(size)
    \/ \E h \in groupsLeft : DedupeHeaderGroup(h)
    \/ DedupeFinish

SpecShort == InitShort /\ [][NextShort]_vars

\* No other source of the batch has the size recorded for p.
UniqueSize(p) ==
    \A i \in 1..Len(sources) : sources[i] # p => sizes[sources[i]] # sizes[p]

\* C20: files of different sizes are never byte-compared.  A comparison of
\* two files that can be stat'd and differ in size answers (false, nil) even
\* when opening or reading either of them would fail; and DedupeSources,
\* when every file that cannot be opened or read has a size no other source
\* has, succeeds and keeps each source of unique size with a copy decision.
SizeShortCircuit ==
    /\ cmpArgs # <<>> =>
          ((/\ ~Fails(cmpArgs[1], "stat")
            /\ ~Fails(cmpArgs[2], "stat")
            /\ Len(fs[cmpArgs[1]]) # Len(fs[cmpArgs[2]]))
              => cmpResult = [identical |-> FALSE, err |-> "nil"])
    /\ (pc = "done" /\ \A f \in faults : UniqueSize(f.path)) =>
          /\ err = "nil"
          /\ \A i \in 1..Len(sources) :
                UniqueSize(sources[i]) =>
                    /\ sources[i] \in SeqToSet(kept)
                    /\ decisions[i].SourcePath = sources[i]
                    /\ decisions[i].Action = ActionCopy

\* A file that cannot be opened was compared with a file of another size,
\* and was kept by a DedupeSources call that hashed the two other sources.
SizeShortCircuitWitness ==
    /\ cmpArgs # <<>>
    /\ Len(fs[cmpArgs[1]]) # Len(fs[cmpArgs[2]])
    /\ Fault(cmpArgs[1], "open", 0) \in faults
    /\ cmpResult = [identical |-> FALSE, err |-> "nil"]
    /\ pc = "done"
    /\ err = "nil"
    /\ UniqueSize(cmpArgs[1])
    /\ cmpArgs[1] \in SeqToSet(kept)
    /\ \E i \in 1..Len(decisions) :
          decisions[i].Action = ActionSkippedDuplicateSrc

----------------------------------------------------------------------------
(* The equality engine as a relation on three files that end at the header *)
(* window or one byte after it, compared pairwise and clustered by         *)
(* DedupeSources.                                                          *)

\* Three contents that fill the header window and differ in its last byte,
\* in its first byte, or in both, and three that go one byte beyond it.
TripleContents ==
    LET zeros == Zeros(headerBytes)
        last == [zeros EXCEPT ![headerBytes] = 1]
        both == [last EXCEPT ![1] = 1]
    IN  {zeros, last, both, Append(zeros, 0), Append(zeros, 1), Append(last, 0)}

InitTriple ==
    /\ fs \in [DedupePaths -> TripleContents]
    /\ dirs = DirsOf(fs)
    /\ faults = {}
    /\ execute = FALSE
    /\ overwrite = FALSE
    /\ results = <<>>
    /\ IdleAttr
    /\ IdleScan
    /\ openFiles = {}
    /\ sources = ShortSources
    /\ details \in [DedupePaths -> {T2020}]
    /\ sizes = RealSizes
    /\ cmpArgs = <<>>
    /\ cmpResult = [identical |-> FALSE, err |-> "nil"]
    /\ callArgs = <<>>
    /\ callResult = <<>>
    /\ IdleDedupe
    /\ IdlePlan
    /\ IdleResolve

NextTriple ==
    \/ \E p1, p2 \in DedupePaths : pc = "idle" /\ CompareFiles(p1, p2)
    \/ DedupeStart
    \/ \E size \in sizesLeft : DedupeSizeGroup(size)
    \/ \E h \in groupsLeft : DedupeHeaderGroup(h)
    \/ DedupeFinish

SpecTriple == InitTriple /\ [][NextTriple]_vars

\* The engine reports p and q identical.
Identical(p, q) ==
    LET r == filesAreIdentical(p, q) IN r.err = "nil" /\ r.identical

\* The canonical file DedupeSources assigned to the i-th source.
CanonicalOf(i) ==
    IF decisions[i].Action = ActionSkippedDuplicateSrc
    THEN decisions[i].DuplicateOf ELSE decisions[i].SourcePath

\* C21: the equality engine is symmetric and transitive on any three files,
\* the result of a comparison is the engine's answer for that pair, and the
\* clusters of a successful DedupeSources call are those of all-pairs
\* comparison: two sources share a canonical file exactly when the engine
\* reports them identical.
EqualityIsAnEquivalence ==
    /\ \A a, b \in DedupePaths : Identical(a, b) <=> Identical(b, a)
    /\ \A a, b, c \in DedupePaths :
          (Identical(a, b) /\ Identical(b, c)) => Identical(a, c)
    /\ cmpArgs # <<>> =>
          (cmpResult.identical <=> Identical(cmpArgs[1], cmpArgs[2]))
    /\ Succeeded =>
          \A i, j \in 1..Len(sources) :
              (CanonicalOf(i) = CanonicalOf(j))
                  <=> Identical(sources[i], sources[j])

\* Three distinct paths hold the same bytes beyond the header window, the
\* last comparison found two of them identical, and DedupeSources then put
\* all three in one cluster.
EqualityIsAnEquivalenceWitness ==
    /\ Succeeded
    /\ cmpArgs # <<>>
    /\ cmpArgs[1] # cmpArgs[2]
    /\ cmpResult.identical
    /\ Len(fs[SrcA]) > headerBytes
    /\ Cardinality({CanonicalOf(i) : i \in 1..Len(sources)}) = 1

----------------------------------------------------------------------------
(* Scans of a root that holds any of five files, at the top level, one     *)
(* directory down and two directories down, with lower-case and upper-case *)
(* media extensions and one extension that is not listed, next to a file   *)
(* outside the root; every MaxDepth from -2 up, allow-lists written with   *)
(* and without dot, and at most one failing stat or directory read.        *)

MaxScanDepth == 2
ScanRoot == <<"s">>
TopPhoto == <<"s", "/", "a", ".", "j">>
TopVideoUpper == <<"s", "/", "b", ".", "M">>
TopText == <<"s", "/", "c", ".", "t">>
SubPhotoUpper == <<"s", "/", "d", "/", "e", ".", "J">>
NestedVideo == <<"s", "/", "d", "/", "n", "/", "k", ".", "m">>
Outside == <<"o", "/", "a", ".", "j">>
ScanFiles == {TopPhoto, TopVideoUpper, TopText, SubPhotoUpper, NestedVideo,
              Outside}
ScanOptions ==
    [MaxDepth : (-2)..MaxScanDepth,
     PhotoExtensions : {<<<<".", "j">>>>, <<<<" ", "J">>, <<>>>>},
     VideoExtensions : {<<<<".", "m">>>>, <<>>}]
ScanFaults == {Fault(TopPhoto, "stat", 0), Fault(Dir(SubPhotoUpper), "read", 0)}

InitScan ==
    /\ \E present \in SUBSET ScanFiles : fs = [q \in present |-> <<0>>]
    /\ dirs = DirsOf(fs) \cup {ScanRoot}
    /\ faults \in {{}} \cup {{f} : f \in ScanFaults}
    /\ scanArgs \in [root : {ScanRoot}, opts : ScanOptions]
    /\ scanResult = [err |-> "nil", records |-> <<>>, matches |-> <<>>]
    /\ details = [q \in DOMAIN fs |-> T2020]
    /\ openFiles = {}
    /\ execute = FALSE
    /\ overwrite = FALSE
    /\ results = <<>>
    /\ IdleAttr
    /\ cmpArgs = <<>>
    /\ cmpResult = [identical |-> FALSE, err |-> "nil"]
    /\ callArgs = <<>>
    /\ callResult = <<>>
    /\ sources = <<>>
    /\ sizes = <<>>
    /\ pc = "scan"
    /\ bySize = <<>>
    /\ sizesLeft = {}
    /\ headerGroups = <<>>
    /\ groupsLeft = {}
    /\ keptSet = {}
    /\ skipSet = {}
    /\ duplicateOf = <<>>
    /\ kept = <<>>
    /\ decisions = <<>>
    /\ err = "nil"
    /\ firstRun = <<>>
    /\ IdlePlan
    /\ IdleResolve

NextScan ==
    \/ CallScanRecords
    \/ CallScan

SpecScan == InitScan /\ [][NextScan]_vars

\* The paths a call returned, whichever of Scan and ScanRecords it was.
ReturnedPaths ==
    IF pc = "scanned"
    THEN [i \in 1..Len(scanResult.records) |-> scanResult.records[i].Path]
    ELSE scanResult.matches

\* File q lies under the root of the call.
UnderRoot(q) ==
    /\ Len(q) > Len(scanArgs.root) + 1
    /\ SubSeq(q, 1, Len(scanArgs.root) + 1) = scanArgs.root \o <<"/">>

\* The extension of q is one of the allow-lists, case and surrounding
\* blanks of the entries and a missing dot aside.
ExtensionIsListed(q) ==
    LET entries == SeqToSet(scanArgs.opts.PhotoExtensions)
                       \cup SeqToSet(scanArgs.opts.VideoExtensions)
        bare(e) == SelectSeq(e, LAMBDA c : c \notin {" ", "."})
    IN  \E e \in entries :
            /\ bare(e) # <<>>
            /\ ToLower(Ext(q)) = <<".">> \o ToLower(bare(e))

\* The number of directories between the root and file q.
DirectoriesBelowRoot(q) ==
    Cardinality(Positions(q, "/"))
        - Cardinality(Positions(scanArgs.root, "/")) - 1

\* The files the call is to return.
Wanted ==
    {q \in DOMAIN fs :
        /\ UnderRoot(q)
        /\ ExtensionIsListed(q)
        /\ \/ scanArgs.opts.MaxDepth = -1
           \/ DirectoriesBelowRoot(q) <= scanArgs.opts.MaxDepth}

\* C23: Scan and ScanRecords return exactly the files under the root whose
\* extension is listed, without regard to case, and that lie at most
\* MaxDepth directories below the root (any number for -1), as paths
\* relative to the root in strictly increasing byte order, each record with
\* the size and modification time of its file; a MaxDepth below -1 gives an
\* error and no files, and so does a failing stat or directory read.
ScanIsExact ==
    pc \in {"scanned", "listed"} =>
        /\ scanArgs.opts.MaxDepth < -1 => scanResult.err # "nil"
        /\ (scanArgs.opts.MaxDepth >= -1 /\ faults = {})
              => scanResult.err = "nil"
        /\ scanResult.err # "nil" => ReturnedPaths = <<>>
        /\ scanResult.err = "nil" =>
              /\ SeqToSet(ReturnedPaths) =
                     {SubSeq(q, Len(scanArgs.root) + 2, Len(q)) : q \in Wanted}
              /\ \A i \in 1..(Len(ReturnedPaths) - 1) :
                     StrLess(ReturnedPaths[i], ReturnedPaths[i + 1])
              /\ \A i \in 1..Len(scanResult.records) :
                     LET q == scanArgs.root \o <<"/">>
                                  \o scanResult.records[i].Path
                     IN  /\ scanResult.records[i].FileSizeBytes = Len(fs[q])
                         /\ scanResult.records[i].ModTime = details[q]

\* A scan one directory deep returned the photo and the upper-case video of
\* the top level and the upper-case photo of the subdirectory, in that
\* order, and left out the text file, the video two directories down and the
\* file outside the root.
ScanIsExactWitness ==
    /\ pc = "listed"
    /\ scanArgs.opts.MaxDepth = 1
    /\ DOMAIN fs = ScanFiles
    /\ scanResult.err = "nil"
    /\ scanResult.matches = <<Rel(ScanRoot, TopPhoto),
                               Rel(ScanRoot, TopVideoUpper),
                               Rel(ScanRoot, SubPhotoUpper)>>

----------------------------------------------------------------------------
(* A caller that plans and reconciles the same sources against the same    *)
(* destination more than once.                                             *)

\* The sources all hold the same bytes; a file of the destination holds
\* these bytes or others.
InitResolveAgain ==
    /\ sources \in UNION {InjectiveSeqs(ResolvePaths, n) : n \in 1..MaxSources}
    /\ bestCreatedAt \in [SeqToSet(sources) -> ResolveTimes]
    /\ \E dst \in DestTrees :
          fs = Override([p \in ResolvePaths |-> <<0>>], dst)
    /\ dirs = DirsOf(fs)
    /\ faults = {}
    /\ execute = FALSE
    /\ overwrite = FALSE
    /\ results = <<>>
    /\ IdleAttr
    /\ IdleScan
    /\ openFiles = {}
    /\ details = <<>>
    /\ sizes = <<>>
    /\ cmpArgs = <<>>
    /\ cmpResult = [identical |-> FALSE, err |-> "nil"]
    /\ callArgs = <<>>
    /\ callResult = <<>>
    /\ IdleDedupe
    /\ existingFiles = {}
    /\ ops = <<>>
    /\ IdleResolve

NextResolveAgain ==
    \/ CallPlanDestinations
    \/ ResolveOp
    \/ ResolveReturn
    \/ ResolveAgain

SpecResolveAgain == InitResolveAgain /\ [][NextResolveAgain]_vars

\* Candidate n of decision i of the decisions ds.
CandidateIn(ds, i, n) ==
    NthName(Dir(ds[i].DestinationPath), Base(ds[i].SourcePath), n)

\* The paths that the decisions of ds before decision i reserved.
ReservedIn(ds, i) ==
    {ds[j].FinalDestinationPath : j \in {k \in CopyDecisions(ds) : k < i}}

\* The candidates of decision i from candidate n up to the one it ended on.
RECURSIVE CandidatesUpTo(_, _, _)
CandidatesUpTo(ds, i, n) ==
    LET c == CandidateIn(ds, i, n)
    IN  IF c = ds[i].FinalDestinationPath \/ n >= ProbeBound THEN <<c>>
        ELSE <<c>> \o CandidatesUpTo(ds, i, n + 1)

\* The log of decision i shows a stat of every candidate up to the final
\* one that no earlier decision of ds reserved, a comparison of those that
\* exist, and nothing else.
ProbedOnlyUnreserved(ds, log, i) ==
    LET free(c) == c \notin ReservedIn(ds, i)
        held(c) == free(c) /\ c \in DOMAIN fs
    IN  /\ log[i].stats = SelectSeq(CandidatesUpTo(ds, i, 0), free)
        /\ log[i].compares = SelectSeq(CandidatesUpTo(ds, i, 0), held)

\* C24: a candidate reserved by an earlier decision of the same call is
\* passed over without a stat or a content comparison, and every call of
\* PlanDestinations and ResolveAgainstDestination starts from an empty
\* reservation set: a later call on the same inputs plans, probes and
\* decides exactly as the earlier one did.
ReservationsAreLocalToACall ==
    /\ pc \in {"resolving", "resolved"} /\ err = "nil" =>
          /\ Len(probed) = Len(destDecisions)
          /\ \A i \in 1..Len(destDecisions) :
                ProbedOnlyUnreserved(destDecisions, probed, i)
    /\ \A k \in 1..Len(resolvedBefore) :
          /\ pc \in {"planned", "resolving", "resolved"} =>
                /\ ops = resolvedBefore[k].ops
                /\ existingFiles = resolvedBefore[k].existing
          /\ pc = "resolving" =>
                /\ destDecisions = SubSeq(resolvedBefore[k].decisions, 1,
                                          Len(destDecisions))
                /\ probed = SubSeq(resolvedBefore[k].probed, 1, Len(probed))
          /\ pc = "resolved" =>
                /\ destDecisions = resolvedBefore[k].decisions
                /\ probed = resolvedBefore[k].probed

\* A second call has ended in which a source was renamed to name_2.ext:
\* name.ext exists and was stat'ed and compared, name_1.ext was reserved
\* earlier in this call and was neither stat'ed nor compared.
ReservationsAreLocalToACallWitness ==
    /\ pc = "resolved"
    /\ err = "nil"
    /\ Len(resolvedBefore) >= 1
    /\ \E i \in 1..Len(destDecisions) :
          /\ destDecisions[i].FinalDestinationPath = CandidateOf(i, 2)
          /\ CandidateOf(i, 1) \in ReservedBefore(i)
          /\ probed[i].stats = <<CandidateOf(i, 0), CandidateOf(i, 2)>>
          /\ probed[i].compares = <<CandidateOf(i, 0)>>

----------------------------------------------------------------------------
(* The planner and the reconciler run loop iteration by loop iteration on  *)
(* sources whose names collide, against a destination that holds up to     *)
(* MaxDestFiles files, one of which may fail to be stat'ed or read.  The   *)
(* program is sequential: a loop that can take its next iteration takes    *)
(* it.                                                                     *)

LoopFaults ==
    {Fault(Join(DestDir2020, <<"a", "_", "1", ".", "j">>), op, 0) :
        op \in {"stat", "read"}}

\* The destination trees: files name.ext and name_1.ext of one day, equal
\* to the sources or not.
LoopTrees ==
    UNION {[D -> ResolveContents] :
              D \in {E \in SUBSET {Join(DestDir2020, <<"a", ".", "j">>),
                                    Join(DestDir2020,
                                         <<"a", "_", "1", ".", "j">>)} :
                         Cardinality(E) <= MaxDestFiles}}

InitLoops ==
    /\ sources \in InjectiveSeqs(ResolvePaths, Cardinality(ResolvePaths))
    /\ \E t \in ResolveTimes : bestCreatedAt = [p \in ResolvePaths |-> t]
    /\ \E dst \in LoopTrees :
          fs = Override([p \in ResolvePaths |-> <<0>>], dst)
    /\ dirs = DirsOf(fs)
    /\ faults \in {{}} \cup {{f} : f \in LoopFaults}
    /\ execute = FALSE
    /\ overwrite = FALSE
    /\ results = <<>>
    /\ IdleAttr
    /\ IdleScan
    /\ openFiles = {}
    /\ details = <<>>
    /\ sizes = <<>>
    /\ cmpArgs = <<>>
    /\ cmpResult = [identical |-> FALSE, err |-> "nil"]
    /\ callArgs = <<>>
    /\ callResult = <<>>
    /\ IdleDedupe
    /\ existingFiles = {}
    /\ ops = <<>>
    /\ IdleResolve

NextLoops ==
    \/ PlanSource
    \/ SuffixStep
    \/ PlanReturn
    \/ ProbeStart
    \/ ProbeStep
    \/ ResolveReturn

SpecLoops ==
    /\ InitLoops
    /\ [][NextLoops]_vars
    /\ WF_vars(SuffixStep)
    /\ WF_vars(ProbeStep)

\* The files of the directory of path p.
FilesBeside(p) == {q \in DOMAIN fs : Dir(q) = Dir(p)}

\* The iterations a loop in progress has behind it are at most the paths
\* that are reserved plus, for the probing loop, the files of the
\* destination directory.
IterationsAreBounded ==
    /\ pc = "suffix" => loopN <= Cardinality(existingFiles)
    /\ pc = "probing" =>
          loopN <= Cardinality(reserved)
                      + Cardinality(FilesBeside(
                            ops[Len(destDecisions) + 1].DestinationPath))
    /\ loopN < LoopCap

\* C25: with finitely many files in the destination directory and finitely
\* many reserved paths, the probing loop of ResolveAgainstDestination ends
\* for every operation, with a decision or an error, and the suffix loops of
\* resolveCollision and unknownDestination end with a path.
LoopsTerminate ==
    /\ []IterationsAreBounded
    /\ (pc = "suffix") ~> (pc = "planning")
    /\ (pc = "probing") ~> (pc \in {"resolving", "resolved"})

\* Both loops ran beyond their first candidate and ended: a source was
\* planned as name_2.ext, and a source was renamed to name_2.ext after an
\* existing file and a reserved path were passed.
LoopsTerminateWitness ==
    /\ pc = "resolved"
    /\ err = "nil"
    /\ \E i \in 1..Len(ops) :
          ops[i].DestinationPath
             = NthName(Dir(ops[i].DestinationPath), Base(ops[i].SourcePath), 2)
    /\ \E i \in 1..Len(destDecisions) :
          /\ destDecisions[i].FinalDestinationPath = CandidateOf(i, 2)
          /\ CandidateOf(i, 0) \in DOMAIN fs
          /\ CandidateOf(i, 1) \in ReservedBefore(i)

----------------------------------------------------------------------------
(* Direct calls of the four functions that open files, on two sources      *)
(* longer than the header window and a destination file that exists or     *)
(* not, with at most one operation on one of the files failing.  Each      *)
(* function is called at most once in a run, in any order.                 *)

HandleDest == Join(DestDir2020, <<"a", ".", "j">>)
HandleFiles == {SrcA, SrcDA, HandleDest}
HandleContents == {Zeros(headerBytes) \o <<0>>, Zeros(headerBytes) \o <<1>>}

HandleFaults ==
    {Fault(p, op, 0) : p \in HandleFiles,
                       op \in {"stat", "open", "create", "write", "sync"}}
        \cup {Fault(p, "read", at) : p \in HandleFiles,
                                     at \in {0, headerBytes}}

InitHandles ==
    /\ \E c \in HandleContents, D \in {{}, {HandleDest}} :
          fs = Override([p \in {SrcA} |-> Zeros(headerBytes) \o <<0>>],
                        Override([p \in {SrcDA} |-> c],
                                 [p \in D |-> Zeros(headerBytes) \o <<0>>]))
    /\ dirs = DirsOf(fs)
    /\ faults \in {{}} \cup {{f} : f \in HandleFaults}
    /\ detArgs \in [path : {SrcA, Dir(SrcA)}, location : {UTC},
                     extracted : {[t |-> MetaTime, ok |-> TRUE, err |-> "nil"]},
                     mtime : {ModTime}]
    /\ detResult = [err |-> "nil", result |-> NoResult]
    /\ IdleScan
    /\ openFiles = {}
    /\ execute = FALSE
    /\ overwrite = FALSE
    /\ results = <<>>
    /\ cmpArgs = <<>>
    /\ cmpResult = [identical |-> FALSE, err |-> "nil"]
    /\ callArgs = <<>>
    /\ callResult = <<>>
    /\ sources = <<>>
    /\ details = <<>>
    /\ sizes = <<>>
    /\ pc = "attribute"
    /\ bySize = <<>>
    /\ sizesLeft = {}
    /\ headerGroups = <<>>
    /\ groupsLeft = {}
    /\ keptSet = {}
    /\ skipSet = {}
    /\ duplicateOf = <<>>
    /\ kept = <<>>
    /\ decisions = <<>>
    /\ err = "nil"
    /\ firstRun = <<>>
    /\ IdlePlan
    /\ IdleResolve

NextHandles ==
    \/ CallDetermineDetailed
    \/ \E p1, p2 \in HandleFiles : cmpArgs = <<>> /\ CompareFiles(p1, p2)
    \/ \E p \in HandleFiles : callArgs = <<>> /\ CallHeaderHash(p)
    \/ \E src \in {SrcA, SrcDA}, allowOverwrite \in BOOLEAN :
          callArgs = <<>> /\ CallCopyFile(src, HandleDest, allowOverwrite)

SpecHandles == InitHandles /\ [][NextHandles]_vars

\* C26: when headerHash, filesAreIdentical, DetermineDetailed or copyFile
\* has returned, with or without an error, none of the handles it opened
\* is open any more: no handle is open when the next file is processed.
HandlesAreClosed == openFiles = {}

\* filesAreIdentical opened its first file, failed to open the second and
\* returned the error; copyFile or headerHash has been called as well.
HandlesAreClosedWitness ==
    /\ cmpArgs # <<>>
    /\ cmpResult.err = "open"
    /\ filesAreIdenticalHandles(cmpArgs[1], cmpArgs[2])
          = <<OpenOf(cmpArgs[1]), CloseOf(cmpArgs[1])>>
    /\ callArgs # <<>>
    /\ openFiles = {}

----------------------------------------------------------------------------
(* Organize --execute run again after a run whose copies all succeeded, on *)
(* the source trees and destinations of the organize runs above.           *)

NextRerun ==
    \/ OrganizeScan
    \/ DedupeStart
    \/ \E size \in sizesLeft : DedupeSizeGroup(size)
    \/ \E h \in groupsLeft : DedupeHeaderGroup(h)
    \/ DedupeFinish
    \/ OrganizePlan
    \/ ResolveOp
    \/ ResolveReturn
    \/ OrganizeMerge
    \/ OrganizeExecute
    \/ OrganizeAgain

SpecRerun == InitRun /\ [][NextRerun]_vars

\* The decision d of a run settles its source at the path where the run
\* before, in its decision e, copied it or found it.
SettledWhere(d, e) ==
    /\ d.SourcePath = e.SourcePath
    /\ IF e.Action = ActionSkippedDuplicateSrc
       THEN d = e
       ELSE /\ e.Action \in {ActionCopied, ActionCopiedRenamed,
                              ActionSkippedIdentical}
            /\ d.Action = ActionSkippedIdentical
            /\ d.FinalDestinationPath = e.FinalDestinationPath

\* C28: a run of organize --execute that follows a run whose copies all
\* succeeded, on the same sources and the destination that run left, does
\* not fail, decides no copy and no copy_renamed, settles every kept
\* source as skipped_identical at the path where the earlier run copied or
\* matched it, and leaves the destination as it was.
RerunChangesNothing ==
    \A k \in 1..Len(resolvedBefore) :
        LET before == resolvedBefore[k]
        IN  /\ fs = before.fs
            /\ dirs = before.dirs
            /\ pc # "failed"
            /\ err = "nil"
            /\ \A i \in 1..Len(destDecisions) :
                  destDecisions[i].Action = ActionSkippedIdentical
            /\ pc \in {"decided", "finished"} =>
                  /\ Len(finalDecisions) = Len(before.decisions)
                  /\ \A i \in 1..Len(finalDecisions) :
                        SettledWhere(finalDecisions[i], before.decisions[i])
                  /\ opsToCopy(finalDecisions) = <<>>
            /\ results = <<>>

\* The second run has ended with the two kept sources skipped as identical;
\* the first had copied one of them under its name and the other renamed.
RerunChangesNothingWitness ==
    /\ pc = "finished"
    /\ Len(resolvedBefore) = 1
    /\ \E i \in 1..Len(finalDecisions) :
          resolvedBefore[1].decisions[i].Action = ActionCopied
    /\ \E i \in 1..Len(finalDecisions) :
          resolvedBefore[1].decisions[i].Action = ActionCopiedRenamed
    /\ \E i \in 1..Len(finalDecisions) :
          finalDecisions[i].Action = ActionSkippedDuplicateSrc
    /\ Cardinality({i \in 1..Len(finalDecisions) :
                       finalDecisions[i].Action = ActionSkippedIdentical}) = 2

====
